---------------------------- MODULE Spec2Model ----------------------------
(***************************************************************************)
(* A model of duck_punch_mcp: servers that expose third-party client       *)
(* libraries as catalogs of callable tools.  Strings are sequences of      *)
(* one-character strings, so that length, slicing, substitution and        *)
(* containment are computed the way the Python code computes them.         *)
(*                                                                         *)
(* The module holds several specifications over one set of variables:      *)
(*   SpecSan     sanitize_tool_name applied to bounded inputs              *)
(*   SpecPager   the gcp wrapper's loop over a paged result                *)
(*   SpecDisc    main() of google_api_server: the thread-pool discovery    *)
(*   SpecInvoke  threads invoking the adapters of one server               *)
(*   SpecPool    main() with more targets than pool workers                *)
(*   SpecWrap    create_tool_wrapper and one call of the wrapper           *)
(*   SpecNorm    annotation and default handling of create_wrapper         *)
(*   SpecRefl    the member loops of maps_server and gcp_server            *)
(*   SpecLife    google_api_server: discovery, then tool calls             *)
(*   SpecScan    the sequential discovery passes and calls of their tools  *)
(*   SpecResult  what the gcp and soar wrappers return for a result        *)
(*   SpecArgv    get_client of soar_server on concurrent threads           *)
(***************************************************************************)
EXTENDS Integers, Sequences, FiniteSets, TLC

VARIABLES
    san_name,     \* the argument of sanitize_tool_name
    san_outs,     \* results of the calls made so far, one entry per call
    san_again,    \* the results of sanitizing these results once more
    run,          \* the interpreter run (process) the calls are made in
    pg_src,       \* the paged result: how many items it yields, and of which kind
    pg,           \* the wrapper's loop over the paged result
    targets,      \* main: the configured APIs, get_target_apis()
    queue,        \* the executor's work queue: submitted tasks no worker took yet
    dup_raises,   \* whether mcp.add_tool raises on a name it already holds
    task,         \* per configured API, the state of its register_tools_for_api
    tools,        \* the tool catalog of mcp: catalog key -> adapter
    registered_tools, \* _registered_tools
    api_scopes,   \* the keys of _api_scopes
    warnings,     \* per API, the discovery failures logged for it
    debug_log,    \* the tool names logged by logger.debug in process_resource
    main_pc,      \* where main() is
    introspection, \* the services built with the dummy key to read the documents
    server,       \* which of the server modules this process runs
    env,          \* whether the credentials the server reads are set
    client_cache, \* _services / _clients / _client: cache key -> client
    constructed,  \* the clients constructed so far
    returned,     \* the clients the cache accessor has returned so far
    th,           \* per calling thread, the adapter invocation it is in
    w_kind,       \* which wrapper is synthesized and called
    w_desc,       \* the method description create_tool_wrapper is given
    w_out,        \* what create_tool_wrapper produced: signature and reverse map
    w_kw,         \* the keyword arguments of the last call of the wrapper
    w_sent,       \* what that call passed on to the provider
    n_in,         \* a parameter as the provider declares it
    n_out,        \* the parameter the wrapper exposes for it
    r_server,     \* the server doing reflective discovery
    r_members,    \* inspect.getmembers of the provider, in its order
    r_idx,        \* the member the loop is at
    r_tools,      \* the tools registered so far: name -> member
    r_log,        \* the members whose registration was logged as failed
    d_server,     \* the server whose discovery pass runs
    d_pos,        \* where the pass is, and the values of its loop variables
    d_catalog,    \* the tools registered so far: name -> what the adapter captured
    d_log,        \* the failures the pass has reported
    d_hist,       \* the providers the pass has reached and loaded, the failures it met
    d_call,       \* the last tool call: the provider it resolved, the operation it called
    res_in,       \* the result the provider's operation returned to the wrapper
    res_out,      \* what the wrapper returned for it
    argv,         \* sys.argv
    gc            \* per calling thread, where its get_client of soar_server is

san_vars == <<san_name, san_outs, san_again, run>>
pg_vars == <<pg_src, pg>>
disc_vars == <<targets, queue, dup_raises, task, tools, registered_tools, api_scopes,
               warnings, debug_log, main_pc, introspection>>

inv_vars == <<server, env, client_cache, constructed, returned, th>>
wrap_vars == <<w_kind, w_desc, w_out, w_kw, w_sent>>
norm_vars == <<n_in, n_out>>
refl_vars == <<r_server, r_members, r_idx, r_tools, r_log>>
scan_vars == <<d_server, d_pos, d_catalog, d_log, d_hist, d_call>>
result_vars == <<res_in, res_out>>
argv_vars == <<argv, gc>>
ext_vars == <<scan_vars, result_vars, argv_vars>>
aux_vars == <<wrap_vars, norm_vars, refl_vars, ext_vars>>
old_vars == <<san_vars, pg_vars, disc_vars, inv_vars, ext_vars>>
base_vars == <<san_vars, pg_vars, disc_vars, inv_vars, wrap_vars, norm_vars, refl_vars>>

vars == <<san_name, san_outs, san_again, run, pg_src, pg, targets, queue, dup_raises, task, tools,
          registered_tools, api_scopes, warnings, debug_log, main_pc, introspection,
          server, env, client_cache, constructed, returned, th,
          w_kind, w_desc, w_out, w_kw, w_sent, n_in, n_out,
          r_server, r_members, r_idx, r_tools, r_log,
          d_server, d_pos, d_catalog, d_log, d_hist, d_call, res_in, res_out, argv, gc>>

(***************************************************************************)
(* Each specification runs one part of the program; the variables of the   *)
(* other parts then keep these values.                                     *)
(***************************************************************************)
SanIdle ==
    /\ san_name = <<>>
    /\ san_outs = <<>>
    /\ san_again = <<>>
    /\ run = 1

PagerIdle ==
    /\ pg_src = [n |-> 0, unbounded |-> FALSE, kinds |-> <<"plain">>]
    /\ pg = [pc |-> "none", i |-> 0, items |-> <<>>, pulled |-> 0, out |-> <<>>]

DiscIdle ==
    /\ targets = {}
    /\ queue = <<>>
    /\ dup_raises = FALSE
    /\ task = <<>>
    /\ tools = <<>>
    /\ registered_tools = <<>>
    /\ api_scopes = {}
    /\ warnings = <<>>
    /\ debug_log = {}
    /\ main_pc = "idle"
    /\ introspection = {}

InvokeIdle ==
    /\ server = "none"
    /\ env = FALSE
    /\ client_cache = <<>>
    /\ constructed = {}
    /\ returned = {}
    /\ th = <<>>

WrapIdle ==
    /\ w_kind = "none"
    /\ w_desc = <<>>
    /\ w_out = <<>>
    /\ w_kw = <<>>
    /\ w_sent = <<>>

NormIdle ==
    /\ n_in = <<>>
    /\ n_out = <<>>

ReflIdle ==
    /\ r_server = "none"
    /\ r_members = <<>>
    /\ r_idx = 0
    /\ r_tools = <<>>
    /\ r_log = {}

ScanIdle ==
    /\ d_server = "none"
    /\ d_pos = <<>>
    /\ d_catalog = <<>>
    /\ d_log = {}
    /\ d_hist = <<>>
    /\ d_call = <<>>

ResultIdle ==
    /\ res_in = <<>>
    /\ res_out = <<>>

ArgvIdle ==
    /\ argv = "original"
    /\ gc = <<>>

ExtIdle == ScanIdle /\ ResultIdle /\ ArgvIdle

AuxIdle == WrapIdle /\ NormIdle /\ ReflIdle /\ ExtIdle

OldIdle == SanIdle /\ PagerIdle /\ DiscIdle /\ InvokeIdle /\ ExtIdle

BaseIdle == SanIdle /\ PagerIdle /\ DiscIdle /\ InvokeIdle /\ WrapIdle /\ NormIdle /\ ReflIdle

(***************************************************************************)
(* Characters and strings                                                  *)
(***************************************************************************)
Lower == {"a","b","c","d","e","f","g","h","i","j","k","l","m",
          "n","o","p","q","r","s","t","u","v","w","x","y","z"}
Upper == {"A","B","C","D","E","F","G","H","I","J","K","L","M",
          "N","O","P","Q","R","S","T","U","V","W","X","Y","Z"}
Digit == {"0","1","2","3","4","5","6","7","8","9"}

\* str.isalpha() on one character of the sanitized string
isalpha(c) == c \in Lower \cup Upper

\* the character class of the regular expression, [a-zA-Z0-9_.:-]
InClass(c) == c \in Lower \cup Upper \cup Digit \cup {"_", ".", ":", "-"}

HexChars == <<"0","1","2","3","4","5","6","7","8","9","a","b","c","d","e","f">>

\* s[:n]
Take(s, n) == SubSeq(s, 1, IF n < Len(s) THEN n ELSE Len(s))

\* s[-n:]  (n > 0)
TakeLast(s, n) == SubSeq(s, IF Len(s) > n THEN Len(s) - n + 1 ELSE 1, Len(s))

\* a string of n copies of c
Rep(c, n) == [i \in 1..n |-> c]

(***************************************************************************)
(* sanitize_tool_name (google_api_server.py)                               *)
(***************************************************************************)
MaxToolLen == 64
\* the slice length the function's comment proposes ("Take first 30 chars")
PrefixLenOfComment == 30
PrefixLen == 27
SuffixLen == 27
HashLen == 8

\* the outcome of indexing an empty string
IndexError == <<"IndexError">>

\* re.sub(r'[^a-zA-Z0-9_.:-]', '_', name)
re_sub(name) == [i \in 1..Len(name) |-> IF InClass(name[i]) THEN name[i] ELSE "_"]

\* the byte value class of a character, the input of the digest
CharCode(c) ==
    CASE c \in Lower -> 3
      [] c \in Upper -> 5
      [] c \in Digit -> 7
      [] c = "_"     -> 11
      [] c = "."     -> 13
      [] c = ":"     -> 17
      [] c = "-"     -> 19
      [] OTHER       -> 22

\* the contribution of byte i to hex digit k of the digest
DigestTerm(s, i, k) == ((CharCode(s[i]) + k) * (i + k)) % 4

\* the sum over the bytes of s of their contributions to digit k
DigestSum(s, k) ==
    Cardinality({ p \in (1..Len(s)) \X (1..3) : p[2] <= DigestTerm(s, p[1], k) })

\* hashlib.md5(name.encode('utf-8')).hexdigest()[:8]: a fixed-width digest of
\* the bytes of name, the same in every run
md5_hex8(name) ==
    [k \in 1..HashLen |-> HexChars[(DigestSum(name, k) % 16) + 1]]

\* the function with the digest taken of the sanitized string
sanitize_tool_name_hash_of_sanitized(name) ==
    LET sanitized0 == re_sub(name) IN
    IF Len(sanitized0) = 0 THEN IndexError
    ELSE
      LET sanitized == IF ~isalpha(sanitized0[1]) /\ sanitized0[1] # "_"
                       THEN <<"A">> \o sanitized0
                       ELSE sanitized0
      IN
      IF Len(sanitized) <= MaxToolLen THEN sanitized
      ELSE
        LET h      == md5_hex8(sanitized)
            prefix == Take(sanitized, PrefixLen)
            suffix == TakeLast(sanitized, SuffixLen)
        IN prefix \o <<"_">> \o h \o <<"_">> \o suffix

sanitize_tool_name(name) ==
    LET sanitized0 == re_sub(name) IN
    IF Len(sanitized0) = 0 THEN IndexError
    ELSE
      LET sanitized == IF ~isalpha(sanitized0[1]) /\ sanitized0[1] # "_"
                       THEN <<"A">> \o sanitized0
                       ELSE sanitized0
      IN
      IF Len(sanitized) <= MaxToolLen THEN sanitized
      ELSE
        LET h      == md5_hex8(name)
            prefix == Take(sanitized, PrefixLen)
            suffix == TakeLast(sanitized, SuffixLen)
        IN prefix \o <<"_">> \o h \o <<"_">> \o suffix

(***************************************************************************)
(* The paged-result branch of the gcp wrapper (gcp_server.py)              *)
(***************************************************************************)
PagerCap == 20

\* a paged result is [n, unbounded, kinds]: it yields n items, or items without
\* end; item j of the source; kind says what the item's class offers
SrcItem(src, j) == [id |-> j, kind |-> src.kinds[((j - 1) % Len(src.kinds)) + 1]]

\* whether the source has an item after `pulled` items were taken
SrcHasNext(src, pulled) == src.unbounded \/ pulled < src.n

\* what the loop body appends for one item
ItemToJson(item) ==
    IF item.kind = "proto" THEN [dict |-> item.id]     \* json.loads(cls.to_json(item))
    ELSE IF item.kind = "object" THEN [str |-> item.id] \* str(item)
    ELSE [str |-> item.id]                              \* str(item)

\* json.dumps(items, indent=2)
json_dumps_list(items) == [json |-> "array", elems |-> items]

\* the test with the comparison off by one
BreakAtOffByOne(i) == i > PagerCap

\* if i >= 20: break
BreakAt(i) == i >= PagerCap

PagerStart == [pc |-> "iter", i |-> 0, items |-> <<>>, pulled |-> 0, out |-> <<>>]

\* one turn of `for i, item in enumerate(result)`, or the return after the loop
PagerStep(src, st) ==
    IF ~SrcHasNext(src, st.pulled)
    THEN [st EXCEPT !.pc = "done", !.out = json_dumps_list(st.items)]
    ELSE LET item == SrcItem(src, st.pulled + 1)
             i    == st.pulled
         IN IF BreakAt(i)
            THEN [st EXCEPT !.pc = "done", !.i = i, !.pulled = st.pulled + 1,
                            !.out = json_dumps_list(st.items)]
            ELSE [st EXCEPT !.i = i, !.pulled = st.pulled + 1,
                            !.items = Append(st.items, ItemToJson(item))]

\* the source raises while the next item is fetched
PagerFail(st) ==
    [st EXCEPT !.pc = "failed", !.out = <<"Error iterating pager: ", "e">>]

(***************************************************************************)
(* SpecPager                                                               *)
(***************************************************************************)
MaxItems == 23

KindPatterns == { <<"proto">>, <<"object">>, <<"plain">>, <<"proto", "plain">> }

PagerInit ==
    /\ pg_src \in [n : 0..MaxItems, unbounded : BOOLEAN, kinds : KindPatterns]
    /\ pg_src.unbounded => pg_src.n = 0
    /\ pg = PagerStart
    /\ SanIdle
    /\ DiscIdle
    /\ InvokeIdle
    /\ AuxIdle

PagerIterate ==
    /\ pg.pc = "iter"
    /\ pg' = PagerStep(pg_src, pg)
    /\ UNCHANGED <<pg_src, san_vars, disc_vars, inv_vars, aux_vars>>

PagerRaise ==
    /\ pg.pc = "iter"
    /\ SrcHasNext(pg_src, pg.pulled)
    /\ pg' = PagerFail(pg)
    /\ UNCHANGED <<pg_src, san_vars, disc_vars, inv_vars, aux_vars>>

PagerNext == PagerIterate \/ PagerRaise

SpecPager == PagerInit /\ [][PagerNext]_vars

(***************************************************************************)
(* Discovery in google_api_server.py                                       *)
(***************************************************************************)
LowerSeq == <<"a","b","c","d","e","f","g","h","i","j","k","l","m",
              "n","o","p","q","r","s","t","u","v","w","x","y","z">>
UpperSeq == <<"A","B","C","D","E","F","G","H","I","J","K","L","M",
              "N","O","P","Q","R","S","T","U","V","W","X","Y","Z">>

upper(c) == IF c \in Lower THEN UpperSeq[CHOOSE i \in 1..26 : LowerSeq[i] = c] ELSE c
lower(c) == IF c \in Upper THEN LowerSeq[CHOOSE i \in 1..26 : UpperSeq[i] = c] ELSE c

\* str.title(): the first letter of every word in upper case, the rest in lower
title(s) ==
    [i \in 1..Len(s) |->
        IF i = 1 \/ ~isalpha(s[i - 1]) THEN upper(s[i]) ELSE lower(s[i])]

\* The discovery documents the configured APIs resolve to.  A document is
\* [methods, resources]: methods is the ordered mapping name -> description,
\* resources the ordered mapping name -> document.  A description is
\* [description, synth]: synth says whether create_tool_wrapper can build the
\* wrapper (it raises on a parameter name that is no identifier).  A resource
\* that is no mapping makes process_resource raise.
NoResources == <<>>
Method(n, d, ok) == [name |-> n, description |-> d, synth |-> ok]
Malformed == [malformed |-> TRUE]
Doc(ms, rs) == [malformed |-> FALSE, methods |-> ms, resources |-> rs]

Apis == {"a:v1", "a:v2", "b:v1", "c:v1"}

api_name(api) ==
    CASE api = "a:v1" -> <<"a">>
      [] api = "a:v2" -> <<"a">>
      [] api = "b:v1" -> <<"b">>
      [] api = "c:v1" -> <<"c">>
      [] api = "d:v1" -> <<"d">>
      [] OTHER        -> <<"p">>

ResourceDesc(api) ==
    CASE api = "a:v1" ->
           Doc(<<Method(<<"g">>, "get v1", TRUE)>>,
               <<[name |-> <<"r">>,
                  desc |-> Doc(<<Method(<<"h", " ", "k">>, "h k v1", TRUE)>>, NoResources)]>>)
      [] api = "a:v2" ->
           Doc(<<Method(<<"g">>, "get v2", TRUE)>>,
               <<[name |-> <<"r">>,
                  desc |-> Doc(<<Method(<<"h", "_", "k">>, "h_k v2", TRUE)>>, NoResources)]>>)
      [] api = "b:v1" ->
           Doc(<<Method(<<"x">>, "x", TRUE), Method(<<"y">>, "y", FALSE)>>, NoResources)
      [] api = "c:v1" ->
           Doc(<<Method(<<"z">>, "z", TRUE)>>,
               <<[name |-> <<"q">>, desc |-> Malformed]>>)
      [] api = "d:v1" ->
           Doc(<<>>,
               <<[name |-> <<"r">>,
                  desc |-> Doc(<<Method(<<"u">>, "u of r", TRUE)>>,
                               <<[name |-> <<"s">>,
                                  desc |-> Doc(<<Method(<<"u">>, "u of r.s", TRUE)>>,
                                               NoResources)]>>)],
                 [name |-> <<"t">>,
                  desc |-> Doc(<<Method(<<"u">>, "u of t", TRUE)>>, NoResources)]>>)
      [] OTHER -> Doc(<<>>, NoResources)

\* The work of process_resource(resource_desc, path_prefix, factory) in the
\* order the code does it: one entry per method of this level, then the
\* entries of each resource; "crash" where the code raises outside the
\* per-tool try.  path is the accessor chain of the factory.
RECURSIVE process_resource(_, _, _)
RECURSIVE process_resources(_, _, _, _)

\* a traversal whose sub-factory reads the loop variable r_name when it is
\* called: every factory of a level then takes the accessor of the last
\* resource of that level
process_resources_late_binding(resources, i, path_prefix, path) ==
    IF i > Len(resources) THEN <<>>
    ELSE process_resource(resources[i].desc,
                          path_prefix \o <<"_">> \o resources[i].name,
                          Append(path, resources[Len(resources)].name))
         \o process_resources(resources, i + 1, path_prefix, path)

process_resource(resource_desc, path_prefix, path) ==
    IF resource_desc.malformed THEN << [type |-> "crash"] >>
    ELSE
      [i \in 1..Len(resource_desc.methods) |->
          [type        |-> "tool",
           tool_name   |-> path_prefix \o <<"_">> \o resource_desc.methods[i].name,
           m_name      |-> resource_desc.methods[i].name,
           path        |-> path,
           description |-> resource_desc.methods[i].description,
           synth       |-> resource_desc.methods[i].synth]]
      \o process_resources(resource_desc.resources, 1, path_prefix, path)

process_resources(resources, i, path_prefix, path) ==
    IF i > Len(resources) THEN <<>>
    ELSE process_resource(resources[i].desc,
                          path_prefix \o <<"_">> \o resources[i].name,
                          Append(path, resources[i].name))
         \o process_resources(resources, i + 1, path_prefix, path)

\* the steps of register_tools_for_api(api) after the document was read
Work(api) == process_resource(ResourceDesc(api), title(api_name(api)), <<>>)

\* create_tool_wrapper: the adapter it returns; its name is the sanitized one
create_tool_wrapper(api, w) ==
    [name        |-> sanitize_tool_name(w.tool_name),
     api         |-> api,
     path        |-> w.path,
     method_name |-> w.m_name,
     doc         |-> w.description]

\* the adapters register_tools_for_api builds for api
AdaptersOf(api) ==
    {create_tool_wrapper(api, Work(api)[i]) :
        i \in {j \in 1..Len(Work(api)) : Work(api)[j].type = "tool" /\ Work(api)[j].synth}}

MaxWorkers == 10

PoolOrder ==
    <<"p1:v1", "p2:v1", "p3:v1", "p4:v1", "p5:v1", "p6:v1",
      "p7:v1", "p8:v1", "p9:v1", "p10:v1", "p11:v1">>

PoolApis == {PoolOrder[i] : i \in 1..Len(PoolOrder)}

\* What build() can end in for api: it returns the service with the document
\* ("ok"), returns a service without _resourceDesc, or raises.  The discovery
\* service answers for all APIs of the pool but the first.
BuildOutcomes(api) ==
    IF api \in PoolApis \ {PoolOrder[1]} THEN {"ok"} ELSE {"ok", "no_desc", "raises"}

\* build(api_name, api_version, developerKey="AIzaDummyKeyForIntrospection")
IntrospectionService(api) == [key |-> api, id |-> 0]

\* a discovery that keeps the service it built for introspection in _services
services_after_introspection_stored(api) ==
    [k \in DOMAIN client_cache \cup {api} |->
        IF k = api THEN IntrospectionService(api) ELSE client_cache[k]]

\* _services after register_tools_for_api has built the introspection
\* service: the service is held by a local variable only
services_after_introspection(api) == client_cache

TaskQueued == [pc |-> "queued", idx |-> 0, failed |-> FALSE]

\* the orders in which main can submit the tasks of the APIs in ts: the order
\* of the entries of GOOGLE_APIS
SubmitOrders(ts) ==
    {q \in [1..Cardinality(ts) -> ts] : \A i, j \in 1..Cardinality(ts) : q[i] = q[j] => i = j}

DiscInit ==
    /\ targets \in (SUBSET Apis) \ {{}}
    /\ queue \in SubmitOrders(targets)
    /\ dup_raises \in BOOLEAN
    /\ task = [a \in targets |-> TaskQueued]
    /\ tools = <<>>
    /\ registered_tools = <<>>
    /\ api_scopes = {}
    /\ warnings = [a \in targets |-> 0]
    /\ debug_log = {}
    /\ main_pc = "pool"
    /\ introspection = {}
    /\ SanIdle
    /\ PagerIdle
    /\ InvokeIdle
    /\ AuxIdle

Running == {a \in targets : task[a].pc = "running"}

\* a pool that starts a thread for every submitted task
TaskStartUnbounded(api) ==
    /\ main_pc = "pool"
    /\ task[api].pc = "queued"
    /\ queue # <<>>
    /\ api = Head(queue)
    /\ queue' = Tail(queue)
    /\ \E outcome \in BuildOutcomes(api) :
         /\ task' = [task EXCEPT ![api] =
                       IF outcome = "ok"
                       THEN [pc |-> "running", idx |-> 1, failed |-> FALSE]
                       ELSE [pc |-> "done", idx |-> 0, failed |-> TRUE]]
         /\ warnings' = [warnings EXCEPT ![api] = IF outcome = "ok" THEN @ ELSE @ + 1]
         /\ api_scopes' = IF outcome = "ok" THEN api_scopes \cup {api} ELSE api_scopes
         /\ introspection' = IF outcome = "raises" THEN introspection
                              ELSE introspection \cup {IntrospectionService(api)}
         /\ client_cache' = IF outcome = "raises" THEN client_cache
                             ELSE services_after_introspection(api)
    /\ UNCHANGED <<targets, dup_raises, tools, registered_tools, debug_log, main_pc,
                   server, env, constructed, returned, th,
                   san_vars, pg_vars, aux_vars>>

\* a free worker of the pool takes the task of api from the head of the work
\* queue; build() reads the document (outcome "ok"), returns a service without
\* _resourceDesc, or raises
TaskStart(api) ==
    /\ main_pc = "pool"
    /\ task[api].pc = "queued"
    /\ queue # <<>>
    /\ api = Head(queue)
    /\ Cardinality(Running) < MaxWorkers
    /\ queue' = Tail(queue)
    /\ \E outcome \in BuildOutcomes(api) :
         /\ task' = [task EXCEPT ![api] =
                       IF outcome = "ok"
                       THEN [pc |-> "running", idx |-> 1, failed |-> FALSE]
                       ELSE [pc |-> "done", idx |-> 0, failed |-> TRUE]]
         /\ warnings' = [warnings EXCEPT ![api] = IF outcome = "ok" THEN @ ELSE @ + 1]
         /\ api_scopes' = IF outcome = "ok" THEN api_scopes \cup {api} ELSE api_scopes
         /\ introspection' = IF outcome = "raises" THEN introspection
                              ELSE introspection \cup {IntrospectionService(api)}
         /\ client_cache' = IF outcome = "raises" THEN client_cache
                             ELSE services_after_introspection(api)
    /\ UNCHANGED <<targets, dup_raises, tools, registered_tools, debug_log, main_pc,
                   server, env, constructed, returned, th,
                   san_vars, pg_vars, aux_vars>>

\* a registry whose add_tool puts the new wrapper in the place of the one
\* already registered under the name
AddToolReplacing(api, w) ==
    LET wrapper == create_tool_wrapper(api, w) IN
    IF ~w.synth
    THEN /\ debug_log' = debug_log \cup {<<api, w.tool_name>>}
         /\ UNCHANGED <<tools, registered_tools>>
    ELSE /\ tools' = [k \in DOMAIN tools \cup {wrapper.name} |->
                             IF k = wrapper.name THEN wrapper ELSE tools[k]]
         /\ registered_tools' =
              Append(registered_tools, [name |-> w.tool_name, description |-> w.description])
         /\ UNCHANGED debug_log

\* mcp.add_tool(wrapper) followed by _registered_tools.append(...), inside the
\* try of process_resource
AddTool(api, w) ==
    LET wrapper == create_tool_wrapper(api, w)
        exists  == wrapper.name \in DOMAIN tools
    IN
    IF ~w.synth \/ (exists /\ dup_raises)
    THEN /\ debug_log' = debug_log \cup {<<api, w.tool_name>>}
         /\ UNCHANGED <<tools, registered_tools>>
    ELSE /\ tools' = IF exists THEN tools
                     ELSE [k \in DOMAIN tools \cup {wrapper.name} |->
                             IF k = wrapper.name THEN wrapper ELSE tools[k]]
         /\ registered_tools' =
              Append(registered_tools, [name |-> w.tool_name, description |-> w.description])
         /\ UNCHANGED debug_log

\* the step with an except clause that logs and raises again, so that main
\* logs the failure a second time
TaskStepReraising(api) ==
    /\ task[api].pc = "running"
    /\ task[api].idx <= Len(Work(api))
    /\ LET w == Work(api)[task[api].idx] IN
       IF w.type = "crash"
       THEN /\ task' = [task EXCEPT ![api] = [pc |-> "done", idx |-> @.idx, failed |-> TRUE]]
            /\ warnings' = [warnings EXCEPT ![api] = @ + 2]
            /\ UNCHANGED <<tools, registered_tools, debug_log>>
       ELSE /\ AddTool(api, w)
            /\ task' = [task EXCEPT ![api].idx = @ + 1]
            /\ UNCHANGED warnings
    /\ UNCHANGED <<targets, queue, dup_raises, api_scopes, main_pc, introspection,
                   san_vars, pg_vars, inv_vars, aux_vars>>

\* one step of the task of api: the next method is wrapped and registered, or
\* the traversal raises and the except of register_tools_for_api logs it
TaskStep(api) ==
    /\ task[api].pc = "running"
    /\ task[api].idx <= Len(Work(api))
    /\ LET w == Work(api)[task[api].idx] IN
       IF w.type = "crash"
       THEN /\ task' = [task EXCEPT ![api] = [pc |-> "done", idx |-> @.idx, failed |-> TRUE]]
            /\ warnings' = [warnings EXCEPT ![api] = @ + 1]
            /\ UNCHANGED <<tools, registered_tools, debug_log>>
       ELSE /\ AddTool(api, w)
            /\ task' = [task EXCEPT ![api].idx = @ + 1]
            /\ UNCHANGED warnings
    /\ UNCHANGED <<targets, queue, dup_raises, api_scopes, main_pc, introspection,
                   san_vars, pg_vars, inv_vars, aux_vars>>

\* process_resource returned: the task ends without a failure
TaskEnd(api) ==
    /\ task[api].pc = "running"
    /\ task[api].idx > Len(Work(api))
    /\ task' = [task EXCEPT ![api].pc = "done"]
    /\ UNCHANGED <<targets, queue, dup_raises, tools, registered_tools, api_scopes, warnings,
                   debug_log, main_pc, introspection, san_vars, pg_vars, inv_vars, aux_vars>>

\* a main that calls mcp.run() as soon as the tasks are submitted
MainRunEarly ==
    /\ main_pc = "pool"
    /\ main_pc' = "serving"
    /\ UNCHANGED <<targets, queue, dup_raises, task, tools, registered_tools, api_scopes,
                   warnings, debug_log, introspection, san_vars, pg_vars, inv_vars, aux_vars>>

\* every future has completed: the with block ends and main calls mcp.run()
MainRun ==
    /\ main_pc = "pool"
    /\ \A a \in targets : task[a].pc = "done"
    /\ main_pc' = "serving"
    /\ UNCHANGED <<targets, queue, dup_raises, task, tools, registered_tools, api_scopes,
                   warnings, debug_log, introspection, san_vars, pg_vars, inv_vars, aux_vars>>

DiscNext ==
    \/ \E api \in targets : TaskStart(api)
    \/ \E api \in targets : TaskStep(api)
    \/ \E api \in targets : TaskEnd(api)
    \/ MainRun

SpecDisc == DiscInit /\ [][DiscNext]_vars

\* str.lower()
lower_str(s) == [i \in 1..Len(s) |-> lower(s[i])]

\* str.startswith
startswith(s, prefix) == Len(prefix) <= Len(s) /\ SubSeq(s, 1, Len(prefix)) = prefix

\* list_google_tools(prefix) without descriptions: the lines it joins, in the
\* order of _registered_tools; an empty prefix is no filter
list_google_tools(prefix) ==
    SelectSeq([i \in 1..Len(registered_tools) |-> registered_tools[i].name],
              LAMBDA name : Len(prefix) = 0 \/ startswith(lower_str(name), lower_str(prefix)))

(***************************************************************************)
(* SpecPool: main() with one more configured API than the pool has         *)
(* workers; the documents of these APIs hold no methods                    *)
(***************************************************************************)
PoolInit ==
    /\ targets = PoolApis
    /\ queue = PoolOrder
    /\ dup_raises = FALSE
    /\ task = [a \in targets |-> TaskQueued]
    /\ tools = <<>>
    /\ registered_tools = <<>>
    /\ api_scopes = {}
    /\ warnings = [a \in targets |-> 0]
    /\ debug_log = {}
    /\ main_pc = "pool"
    /\ introspection = {}
    /\ SanIdle
    /\ PagerIdle
    /\ InvokeIdle
    /\ AuxIdle

PoolNext ==
    \/ \E api \in targets : TaskStart(api)
    \/ \E api \in targets : TaskEnd(api)
    \/ MainRun

SpecPool == PoolInit /\ [][PoolNext]_vars

(***************************************************************************)
(* Adapter invocation: the wrappers and the client caches of the servers   *)
(***************************************************************************)
Servers == {"google", "gcp", "soar", "secops", "fitbit"}

\* whether needle occurs in hay
Contains(hay, needle) ==
    \E i \in 1..(Len(hay) - Len(needle) + 1) : SubSeq(hay, i, i + Len(needle) - 1) = needle

\* str.replace(old, ""), scanning from position i
RECURSIVE remove_from(_, _, _)
remove_from(s, i, old) ==
    IF i > Len(s) THEN <<>>
    ELSE IF i + Len(old) - 1 <= Len(s) /\ SubSeq(s, i, i + Len(old) - 1) = old
         THEN remove_from(s, i + Len(old), old)
         ELSE <<s[i]>> \o remove_from(s, i + 1, old)

\* str.split("-"), scanning from position i with the part cur begun
RECURSIVE split_from(_, _, _)
split_from(s, i, cur) ==
    IF i > Len(s) THEN <<cur>>
    ELSE IF s[i] = "-" THEN <<cur>> \o split_from(s, i + 1, <<>>)
         ELSE split_from(s, i + 1, Append(cur, s[i]))

\* "".join(p.title() for p in parts)
RECURSIVE join_titles(_, _)
join_titles(parts, i) ==
    IF i > Len(parts) THEN <<>> ELSE title(parts[i]) \o join_titles(parts, i + 1)

GoogleCloudDash == <<"g", "o", "o", "g", "l", "e", "-", "c", "l", "o", "u", "d", "-">>

pkg_to_prefix(pkg_name) ==
    LET name  == remove_from(pkg_name, 1, GoogleCloudDash)
        parts == split_from(name, 1, <<>>)
    IN join_titles(parts, 1)

\* the candidates of discover_tools: package, client key (module.class), methods
GcpCandidates ==
    { [pkg |-> GoogleCloudDash \o <<"a", "s">>, key |-> "m1.AsClient",
       methods |-> {<<"l", "s">>, <<"g", "t">>}],
      [pkg |-> GoogleCloudDash \o <<"a", "-", "k">>, key |-> "m2.AkClient",
       methods |-> {<<"l", "s">>}] }

\* An adapter as the invocation sees it: the name it is registered under, the
\* key of the client it resolves, and the method it calls on the client.
GoogleAdapters ==
    {[name |-> ad.name, key |-> ad.api, method_name |-> ad.method_name] :
        ad \in AdaptersOf("a:v1") \cup AdaptersOf("b:v1")}

\* tool_name = f"{pkg_prefix}_{name}"; the wrapper keeps method_name
GcpAdapters ==
    UNION { {[name |-> pkg_to_prefix(c.pkg) \o <<"_">> \o m, key |-> c.key, method_name |-> m] :
               m \in c.methods} : c \in GcpCandidates }

\* functools.wraps(method): the wrapper is registered under the method's name
SoarAdapters == {[name |-> m, key |-> "Siemplify", method_name |-> m] : m \in {<<"g", "c">>}}

SecopsAdapters == {[name |-> m, key |-> "_client", method_name |-> m] : m \in {<<"s", "r">>}}

FitbitAdapters == {[name |-> m, key |-> "_client", method_name |-> m] : m \in {<<"f", "d">>}}

Adapters(srv) ==
    CASE srv = "google" -> GoogleAdapters
      [] srv = "gcp"    -> GcpAdapters
      [] srv = "soar"   -> SoarAdapters
      [] srv = "secops" -> SecopsAdapters
      [] srv = "fitbit" -> FitbitAdapters

\* the servers whose accessor keeps the client it built
Caches(srv) == srv \in {"google", "gcp", "secops", "fitbit"}

\* the wrappers whose body is inside try / except Exception
CatchesAll(srv) == srv \in {"google", "gcp", "soar"}

ErrorExecuting == <<"E", "r", "r", "o", "r", " ", "e", "x", "e", "c", "u", "t", "i", "n", "g", " ">>
ColonSpace == <<":", " ">>
FitbitNotInitialized == <<"E", "r", "r", "o", "r", ":", " ", "F", "i", "t", "b", "i", "t", " ", "c", "l", "i", "e", "n", "t", " ", "n", "o", "t", " ", "i", "n", "i", "t", "i", "a", "l", "i", "z", "e", "d", ".">>
Boom == <<"b", "o", "o", "m">>
NoCreds == <<"n", "o", " ", "c", "r", "e", "d", "s">>
OkText == <<"o", "k">>

\* the name the except clause of the wrapper puts into its message
NameInError(srv, ad) == IF srv = "google" THEN ad.name ELSE ad.method_name

NoRet == [kind |-> "none", text |-> <<>>, fault |-> "none", client |-> "none",
          adapter |-> <<>>]

\* what the wrapper of srv does with an exception e raised in its body
OnException(srv, ad, e, fault) ==
    IF CatchesAll(srv)
    THEN [kind |-> "string", text |-> ErrorExecuting \o NameInError(srv, ad) \o ColonSpace \o e,
          fault |-> fault, client |-> IF fault = "client" THEN "raised" ELSE "ok",
          adapter |-> ad.name]
    ELSE [kind |-> "raised", text |-> e,
          fault |-> fault, client |-> IF fault = "client" THEN "raised" ELSE "ok",
          adapter |-> ad.name]

\* what the wrapper of srv returns for a result of Python type rtype
OnResult(srv, ad, rtype) ==
    IF srv = "secops" /\ rtype # "str"
    THEN [kind |-> "value", text |-> OkText, fault |-> "none", client |-> "ok",
          adapter |-> ad.name]
    ELSE [kind |-> "string", text |-> OkText, fault |-> "none", client |-> "ok",
          adapter |-> ad.name]

Idle == [pc |-> "idle", ad |-> <<>>, handle |-> <<>>, ret |-> NoRet]

BuiltFor(key) == {h \in constructed : h.key = key}

\* the cache with the client h stored under key
CacheWith(key, h) ==
    [k \in DOMAIN client_cache \cup {key} |-> IF k = key THEN h ELSE client_cache[k]]

\* an accessor that remembers the failed construction as an entry without client
CacheAfterFailureRemembered(key) == CacheWith(key, [key |-> key, id |-> 0])

\* the cache after a construction for key failed: the except clause logs and
\* raises, the assignment is not reached
CacheAfterFailure(key) == client_cache

(***************************************************************************)
(* SpecInvoke                                                              *)
(***************************************************************************)
NCallers == 2
MaxBuilds == 2

Callers == 1..NCallers

InvokeInit ==
    /\ server \in Servers
    /\ env \in BOOLEAN
    /\ server \in {"google", "gcp", "soar"} => env = TRUE
    /\ client_cache = <<>>
    /\ constructed = {}
    /\ returned = {}
    /\ th = [t \in Callers |-> Idle]
    /\ SanIdle
    /\ PagerIdle
    /\ DiscIdle
    /\ AuxIdle

\* the host calls the adapter ad on thread t
Invoke(t, ad) ==
    /\ th[t].pc = "idle"
    /\ th' = [th EXCEPT ![t] = [pc |-> "client", ad |-> ad, handle |-> <<>>, ret |-> NoRet]]
    /\ UNCHANGED <<server, env, client_cache, constructed, returned,
                   san_vars, pg_vars, disc_vars, aux_vars>>

\* a get_client that goes on to construct the client whatever the
\* environment holds
fitbit_credentials_unchecked(e) == TRUE

\* all([client_id, client_secret, access_token, refresh_token])
fitbit_credentials(e) == e

\* the accessor looks the key up; without an entry it goes on to construct, or
\* (secops, fitbit) gives up when the credentials are not set
Lookup(t) ==
    /\ th[t].pc = "client"
    /\ LET ad == th[t].ad IN
       IF Caches(server) /\ ad.key \in DOMAIN client_cache
       THEN /\ th' = [th EXCEPT ![t].pc = "call", ![t].handle = client_cache[ad.key]]
            /\ returned' = returned \cup {client_cache[ad.key]}
       ELSE IF server = "secops" /\ ~env
       THEN /\ th' = [th EXCEPT ![t] = [Idle EXCEPT !.ret = OnException(server, ad, NoCreds, "client")]]
            /\ UNCHANGED returned
       ELSE IF server = "fitbit" /\ ~fitbit_credentials(env)
       THEN /\ th' = [th EXCEPT ![t] = [Idle EXCEPT !.ret =
                        [kind |-> "string", text |-> FitbitNotInitialized, fault |-> "client",
                         client |-> "None", adapter |-> ad.name]]]
            /\ UNCHANGED returned
       ELSE /\ th' = [th EXCEPT ![t].pc = "build"]
            /\ UNCHANGED returned
    /\ UNCHANGED <<server, env, client_cache, constructed, san_vars, pg_vars, disc_vars, aux_vars>>

\* the construction of the client succeeds: the accessor stores it (where it
\* keeps a cache) and returns it
BuildOk(t) ==
    /\ th[t].pc = "build"
    /\ Cardinality(BuiltFor(th[t].ad.key)) < MaxBuilds
    /\ LET key == th[t].ad.key
           h   == [key |-> key, id |-> Cardinality(BuiltFor(key)) + 1]
       IN /\ constructed' = constructed \cup {h}
          /\ returned' = returned \cup {h}
          /\ client_cache' = IF Caches(server) THEN CacheWith(key, h) ELSE client_cache
          /\ th' = [th EXCEPT ![t].pc = "call", ![t].handle = h]
    /\ UNCHANGED <<server, env, san_vars, pg_vars, disc_vars, aux_vars>>

\* the construction raises
BuildFail(t) ==
    /\ th[t].pc = "build"
    /\ client_cache' = CacheAfterFailure(th[t].ad.key)
    /\ th' = [th EXCEPT ![t] = [Idle EXCEPT !.ret = OnException(server, th[t].ad, NoCreds, "client")]]
    /\ UNCHANGED <<server, env, constructed, returned, san_vars, pg_vars, disc_vars, aux_vars>>

\* the method of the client is called and returns a result
CallOk(t) ==
    /\ th[t].pc = "call"
    /\ \E rtype \in {"str", "dict"} :
         th' = [th EXCEPT ![t] = [Idle EXCEPT !.ret = OnResult(server, th[t].ad, rtype)]]
    /\ UNCHANGED <<server, env, client_cache, constructed, returned,
                   san_vars, pg_vars, disc_vars, aux_vars>>

\* the method of the client raises
CallRaise(t) ==
    /\ th[t].pc = "call"
    /\ th' = [th EXCEPT ![t] = [Idle EXCEPT !.ret = OnException(server, th[t].ad, Boom, "call")]]
    /\ UNCHANGED <<server, env, client_cache, constructed, returned,
                   san_vars, pg_vars, disc_vars, aux_vars>>

\* the Fitbit credentials are set or unset in the environment
EnvChange ==
    /\ server = "fitbit"
    /\ env' = ~env
    /\ UNCHANGED <<server, client_cache, constructed, returned, th,
                   san_vars, pg_vars, disc_vars, aux_vars>>

InvokeNext ==
    \/ \E t \in Callers : \E ad \in Adapters(server) : Invoke(t, ad)
    \/ \E t \in Callers : Lookup(t)
    \/ \E t \in Callers : BuildOk(t)
    \/ \E t \in Callers : BuildFail(t)
    \/ \E t \in Callers : CallOk(t)
    \/ \E t \in Callers : CallRaise(t)
    \/ EnvChange

SpecInvoke == InvokeInit /\ [][InvokeNext]_vars

(***************************************************************************)
(* SpecLife: google_api_server from main() on: discovery, then the host    *)
(* invokes the adapters of the catalog                                     *)
(***************************************************************************)
MaxLifeTargets == 2

LifeApis == {"a:v1", "a:v2", "b:v1", "d:v1"}

\* the adapters the host can invoke: the wrappers in the catalog of mcp, with
\* the accessor chain of their factory
LifeAdapters ==
    {[name |-> tools[k].name, key |-> tools[k].api, method_name |-> tools[k].method_name,
      path |-> tools[k].path] : k \in DOMAIN tools}

LifeInit ==
    /\ targets \in {ts \in SUBSET LifeApis : Cardinality(ts) \in 1..MaxLifeTargets}
    /\ queue \in SubmitOrders(targets)
    /\ dup_raises = FALSE
    /\ task = [a \in targets |-> TaskQueued]
    /\ tools = <<>>
    /\ registered_tools = <<>>
    /\ api_scopes = {}
    /\ warnings = [a \in targets |-> 0]
    /\ debug_log = {}
    /\ main_pc = "pool"
    /\ introspection = {}
    /\ server = "google"
    /\ env = TRUE
    /\ client_cache = <<>>
    /\ constructed = {}
    /\ returned = {}
    /\ th = [t \in {1} |-> Idle]
    /\ SanIdle
    /\ PagerIdle
    /\ AuxIdle

\* mcp.run() is serving: the host calls a tool of the catalog
HostInvoke(t, ad) ==
    /\ main_pc = "serving"
    /\ Invoke(t, ad)

LifeNext ==
    \/ \E api \in targets : TaskStart(api)
    \/ \E api \in targets : TaskStep(api)
    \/ \E api \in targets : TaskEnd(api)
    \/ MainRun
    \/ \E t \in DOMAIN th : \E ad \in LifeAdapters : HostInvoke(t, ad)
    \/ \E t \in DOMAIN th : Lookup(t)
    \/ \E t \in DOMAIN th : BuildOk(t)
    \/ \E t \in DOMAIN th : BuildFail(t)
    \/ \E t \in DOMAIN th : CallOk(t)
    \/ \E t \in DOMAIN th : CallRaise(t)

SpecLife == LifeInit /\ [][LifeNext]_vars

(***************************************************************************)
(* Wrapper synthesis: the signature create_tool_wrapper builds from a      *)
(* method description, and what the wrappers do with keyword arguments     *)
(***************************************************************************)
\* A dict is a sequence of entries [k, v] with distinct keys, in insertion
\* order.  A value is [scalar |-> x] or [dict |-> d].
Keys(m) == {m[i].k : i \in 1..Len(m)}

Get(m, key) == m[CHOOSE i \in 1..Len(m) : m[i].k = key].v

\* m[key] = value
Put(m, key, value) ==
    IF key \in Keys(m)
    THEN [i \in 1..Len(m) |-> IF m[i].k = key THEN [k |-> key, v |-> value] ELSE m[i]]
    ELSE Append(m, [k |-> key, v |-> value])

\* m without key, as after m.pop(key)
Pop(m, key) == SelectSeq(m, LAMBDA en : en.k # key)

\* m.update(other), from entry i of other on
RECURSIVE Update(_, _, _)
Update(m, other, i) ==
    IF i > Len(other) THEN m ELSE Update(Put(m, other[i].k, other[i].v), other, i + 1)

Scalar(x) == [scalar |-> x]
Dict(d) == [dict |-> d]
isdict(value) == "dict" \in DOMAIN value
None == Scalar("None")

N_a_dot_b == <<"a", ".", "b">>
N_a_us_b == <<"a", "_", "b">>
N_body == <<"b", "o", "d", "y">>
N_id == <<"i", "d">>
N_kwargs == <<"k", "w", "a", "r", "g", "s">>
N_m_dash_r == <<"m", "-", "r">>
N_date == <<"d", "a", "t", "e">>
N_base_date == <<"b", "a", "s", "e", "_", "d", "a", "t", "e">>
N_user_id == <<"u", "s", "e", "r", "_", "i", "d">>
Today == Scalar("today")

\* str.isidentifier(), which inspect.Parameter requires of a name
isidentifier(name) ==
    /\ Len(name) > 0
    /\ isalpha(name[1]) \/ name[1] = "_"
    /\ \A i \in 1..Len(name) : isalpha(name[i]) \/ name[i] \in Digit \/ name[i] = "_"

\* param_name.replace('.', '_')
replace_dot(name) == [i \in 1..Len(name) |-> IF name[i] = "." THEN "_" ELSE name[i]]

\* dict.get(key, default) on a description
get(info, key, default) == IF key \in DOMAIN info THEN info[key] ELSE default

\* type_map.get(p_type_str, str)
type_map(p_type_str) ==
    CASE p_type_str = "string"  -> "str"
      [] p_type_str = "integer" -> "int"
      [] p_type_str = "boolean" -> "bool"
      [] p_type_str = "number"  -> "float"
      [] p_type_str = "array"   -> "list"
      [] p_type_str = "object"  -> "dict"
      [] OTHER                  -> "str"

\* the inspect.Parameter of one declared parameter
declared_param(en) ==
    [name      |-> replace_dot(en.k),
     default   |-> IF get(en.v, "required", FALSE) THEN "empty" ELSE "None",
     annotation |-> type_map(get(en.v, "type", "string")),
     synthetic |-> FALSE]

body_param == [name |-> N_body, default |-> "None", annotation |-> "dict", synthetic |-> TRUE]

\* a wrapper that puts the body parameter in front of the declared ones
sig_params_body_first(method_desc) ==
    (IF method_desc.request THEN <<body_param>> ELSE <<>>)
    \o [i \in 1..Len(method_desc.parameters) |-> declared_param(method_desc.parameters[i])]

\* sig_params as the loop and the 'request' branch leave it
sig_params(method_desc) ==
    [i \in 1..Len(method_desc.parameters) |-> declared_param(method_desc.parameters[i])]
    \o (IF method_desc.request THEN <<body_param>> ELSE <<>>)

\* param_mapping after the loop: sanitized name -> original name, a later
\* parameter overwriting the entry of an earlier one with the same sanitized name
RECURSIVE param_mapping_from(_, _, _)
param_mapping_from(parameters, i, acc) ==
    IF i > Len(parameters) THEN acc
    ELSE param_mapping_from(parameters, i + 1,
                            Put(acc, replace_dot(parameters[i].k), parameters[i].k))

\* a reverse map that keeps the sanitized name as the name to call with
param_mapping_sanitized(method_desc) ==
    [i \in 1..Len(param_mapping_from(method_desc.parameters, 1, <<>>)) |->
        [k |-> param_mapping_from(method_desc.parameters, 1, <<>>)[i].k,
         v |-> param_mapping_from(method_desc.parameters, 1, <<>>)[i].k]]

param_mapping(method_desc) == param_mapping_from(method_desc.parameters, 1, <<>>)

\* What create_tool_wrapper does with the parameters of method_desc:
\* inspect.Parameter raises ValueError for a name that is no identifier,
\* inspect.Signature for a name that occurs twice; otherwise the wrapper
\* carries the signature and closes over param_mapping.
synthesize(method_desc) ==
    LET sp == sig_params(method_desc) IN
    IF \E i \in 1..Len(sp) : ~isidentifier(sp[i].name)
    THEN [status |-> "raised", error |-> "not a valid parameter name"]
    ELSE IF \E i, j \in 1..Len(sp) : i # j /\ sp[i].name = sp[j].name
    THEN [status |-> "raised", error |-> "duplicate parameter name"]
    ELSE [status |-> "ok", signature |-> sp, param_mapping |-> param_mapping(method_desc)]

\* a wrapper that passes every argument on under the name it came with
forward_name_unmapped(pm, key) == key

\* the keyword under which the wrapper passes the argument key on
forward_name(pm, key) ==
    IF key = N_body THEN N_body
    ELSE IF key \in Keys(pm) THEN Get(pm, key)
    ELSE key

\* api_kwargs as the loop over kwargs.items() builds it
RECURSIVE api_kwargs_from(_, _, _, _)
api_kwargs_from(pm, kwargs, i, acc) ==
    IF i > Len(kwargs) THEN acc
    ELSE api_kwargs_from(pm, kwargs, i + 1,
                         Put(acc, forward_name(pm, kwargs[i].k), kwargs[i].v))

\* the keyword arguments the google wrapper calls the API method with
google_call(pm, kwargs) == api_kwargs_from(pm, kwargs, 1, <<>>)

\* "Handle nested kwargs injection": kwargs after the 'kwargs' entry was
\* popped and, when it is a dict, merged into the top level
unnest(kwargs) ==
    IF N_kwargs \in Keys(kwargs)
    THEN LET inner_kwargs == Get(kwargs, N_kwargs)
             rest         == Pop(kwargs, N_kwargs)
         IN IF isdict(inner_kwargs) THEN Update(rest, inner_kwargs.dict, 1) ELSE rest
    ELSE kwargs

\* the keyword arguments the generic fitbit wrapper calls the bound method with
fitbit_call(kwargs) == unnest(kwargs)

\* sleep(date='today', user_id=None, **kwargs): the arguments of
\* client.sleep(user_id=user_id, date=date)
sleep_call(args) ==
    LET date0   == IF N_date \in Keys(args) THEN Get(args, N_date) ELSE Today
        user_id == IF N_user_id \in Keys(args) THEN Get(args, N_user_id) ELSE None
        kwargs  == unnest(Pop(Pop(args, N_date), N_user_id))
        date1   == IF date0 = Today /\ N_date \in Keys(kwargs) THEN Get(kwargs, N_date) ELSE date0
        kwargs1 == IF date0 = Today /\ N_date \in Keys(kwargs) THEN Pop(kwargs, N_date) ELSE kwargs
        date2   == IF date1 = Today /\ N_base_date \in Keys(kwargs1)
                   THEN Get(kwargs1, N_base_date) ELSE date1
    IN <<[k |-> N_user_id, v |-> user_id], [k |-> N_date, v |-> date2]>>

(***************************************************************************)
(* SpecWrap                                                                *)
(***************************************************************************)
MaxParams == 2
MaxCallArgs == 2

WrapKinds == {"google", "fitbit", "fitbit_sleep"}

ParamNames == {N_a_dot_b, N_a_us_b, N_body, N_id, N_m_dash_r}

ParamInfos ==
    { [type |-> "string", required |-> TRUE],
      [type |-> "object", required |-> FALSE],
      [description |-> "d"] }

\* the sequences of at most n distinct-keyed entries over keys ks, values vs(key)
Entries(ks, vs(_)) == UNION {{[k |-> key, v |-> value] : value \in vs(key)} : key \in ks}

DictsOver(es, n) ==
    UNION {{d \in [1..len -> es] : \A i, j \in 1..len : d[i].k = d[j].k => i = j} : len \in 0..n}

MethodDescs ==
    [parameters : DictsOver(Entries(ParamNames, LAMBDA key : ParamInfos), MaxParams),
     request    : BOOLEAN]

NoParams == [parameters |-> <<>>, request |-> FALSE]

\* the mappings a caller nests under 'kwargs'
NestedDicts(kind) ==
    LET name == IF kind = "fitbit_sleep" THEN N_user_id ELSE N_a_us_b
        deep == Dict(<<[k |-> name, v |-> Scalar("v1")]>>)
    IN { <<[k |-> name, v |-> Scalar("v2")]>>,
         <<[k |-> N_kwargs, v |-> deep]>>,
         <<[k |-> name, v |-> Scalar("v2")], [k |-> N_kwargs, v |-> deep]>> }

CallKeys(kind) ==
    IF kind = "google" THEN {N_a_us_b, N_a_dot_b, N_body, N_kwargs}
    ELSE IF kind = "fitbit" THEN {N_a_us_b, N_kwargs}
    ELSE {N_date, N_base_date, N_user_id, N_kwargs}

CallValues(kind, key) ==
    IF key = N_kwargs
    THEN {Scalar("v1")} \cup {Dict(d) : d \in NestedDicts(kind)}
    ELSE IF key = N_date THEN {Today, Scalar("v1")}
    ELSE {Scalar("v1"), Scalar("v2")}

CallArgs(kind) ==
    DictsOver(Entries(CallKeys(kind), LAMBDA key : CallValues(kind, key)), MaxCallArgs)

NotCalled == [called |-> FALSE]

WrapInit ==
    /\ w_kind \in WrapKinds
    /\ w_desc \in MethodDescs
    /\ w_kind # "google" => w_desc = NoParams
    /\ w_out = [status |-> "none"]
    /\ w_kw = <<>>
    /\ w_sent = NotCalled
    /\ OldIdle
    /\ NormIdle
    /\ ReflIdle

\* process_resource calls create_tool_wrapper for the method; the fitbit
\* wrappers are defined in the module
Synthesize ==
    /\ w_out.status = "none"
    /\ w_out' = IF w_kind = "google" THEN synthesize(w_desc) ELSE [status |-> "ok"]
    /\ UNCHANGED <<w_kind, w_desc, w_kw, w_sent, old_vars, norm_vars, refl_vars>>

\* the host calls the wrapper with keyword arguments
WrapperCall ==
    /\ w_out.status = "ok"
    /\ ~w_sent.called
    /\ \E kwargs \in CallArgs(w_kind) :
         /\ w_kw' = kwargs
         /\ w_sent' = [called |-> TRUE,
                       args   |-> CASE w_kind = "google" -> google_call(w_out.param_mapping, kwargs)
                                    [] w_kind = "fitbit" -> fitbit_call(kwargs)
                                    [] w_kind = "fitbit_sleep" -> sleep_call(kwargs)]
    /\ UNCHANGED <<w_kind, w_desc, w_out, old_vars, norm_vars, refl_vars>>

\* the call has returned; the wrapper keeps nothing of it
WrapperReturn ==
    /\ w_sent.called
    /\ w_kw' = <<>>
    /\ w_sent' = NotCalled
    /\ UNCHANGED <<w_kind, w_desc, w_out, old_vars, norm_vars, refl_vars>>

WrapNext ==
    \/ Synthesize
    \/ WrapperCall
    \/ WrapperReturn

SpecWrap == WrapInit /\ [][WrapNext]_vars

(***************************************************************************)
(* Signature normalization: the annotation and the default a wrapper       *)
(* exposes for a parameter of the provider                                 *)
(***************************************************************************)
\* An annotation: one of the types of the tuple in is_simple_type, a class of
\* the provider, a subscripted generic (name is its origin), typing.Any,
\* a typing.Union of annotations that are no unions, or Parameter.empty.
SimpleTypes == {"str", "int", "float", "bool", "list", "dict", "NoneType"}
Simple(n) == [kind |-> "simple", name |-> n, args |-> {}]
Opaque(n) == [kind |-> "opaque", name |-> n, args |-> {}]
Generic(origin) == [kind |-> "generic", name |-> origin, args |-> {}]
AnyType == [kind |-> "any", name |-> "Any", args |-> {}]
EmptyAnnotation == [kind |-> "empty", name |-> "empty", args |-> {}]
UnionOf(members) == [kind |-> "union", name |-> "Union", args |-> members]

\* typing.get_origin(t)
get_origin(t) ==
    CASE t.kind = "union"   -> "Union"
      [] t.kind = "generic" -> t.name
      [] OTHER              -> "None"

\* is_simple_type of gcp_server
RECURSIVE gcp_is_simple_type(_)
gcp_is_simple_type(t) ==
    IF t.kind = "simple" /\ t.name \in SimpleTypes THEN TRUE
    ELSE IF get_origin(t) = "Union" THEN \A a \in t.args : gcp_is_simple_type(a)
    ELSE FALSE

\* is_simple_type of soar_server
RECURSIVE soar_is_simple_type(_)
soar_is_simple_type(t) ==
    IF t.kind = "simple" /\ t.name \in SimpleTypes THEN TRUE
    ELSE IF get_origin(t) = "Union" THEN \A a \in t.args : soar_is_simple_type(a)
    ELSE IF get_origin(t) \in {"list", "dict"} THEN TRUE
    ELSE FALSE

\* a wrapper that exposes the provider's annotation as it is
annotation_kept(annotation) == annotation

\* gcp create_wrapper: Any for a missing annotation, dict for what is not simple
gcp_annotation(annotation) ==
    LET a == IF annotation = EmptyAnnotation THEN AnyType ELSE annotation
    IN IF ~gcp_is_simple_type(a) THEN Simple("dict") ELSE a

\* soar create_wrapper: Any for an annotation that is not simple
soar_annotation(annotation) ==
    IF annotation # EmptyAnnotation /\ ~soar_is_simple_type(annotation)
    THEN AnyType ELSE annotation

\* google create_tool_wrapper: the Python type of the declared type tag
google_annotation(param_info) == Simple(type_map(get(param_info, "type", "string")))

\* A default value: Parameter.empty, or a value together with what
\* json.dumps does with it ("ok", or the exception it raises).
EmptyDefault == [kind |-> "empty", value |-> "empty", dumps |-> "ok"]
NoneDefault == [kind |-> "value", value |-> "None", dumps |-> "ok"]

\* a wrapper that keeps the default whatever json.dumps does with it
default_kept(default) == default

\* create_wrapper of gcp_server and of soar_server: the default exposed
normalize_default(default) ==
    IF default # EmptyDefault /\ default.dumps \in {"TypeError", "OverflowError"}
    THEN NoneDefault ELSE default

(***************************************************************************)
(* SpecNorm                                                                *)
(***************************************************************************)
MaxUnionArgs == 2

UnionMembers ==
    {Simple(n) : n \in SimpleTypes} \cup {Opaque("Proto"), Generic("list")}

Annotations ==
    {Simple(n) : n \in SimpleTypes}
    \cup {Opaque("Proto"), Opaque("object"), AnyType, EmptyAnnotation}
    \cup {Generic(o) : o \in {"list", "dict", "Sequence"}}
    \cup {UnionOf(ms) : ms \in {x \in SUBSET UnionMembers :
                                   Cardinality(x) >= 2 /\ Cardinality(x) <= MaxUnionArgs}}

Defaults ==
    {EmptyDefault, NoneDefault,
     [kind |-> "value", value |-> "today", dumps |-> "ok"],
     [kind |-> "value", value |-> "DEFAULT", dumps |-> "TypeError"],
     [kind |-> "value", value |-> "huge", dumps |-> "OverflowError"]}

TypeTags == {"string", "integer", "boolean", "number", "array", "object", "any", "uint64"}

NormInputs ==
    {[server |-> "google", info |-> [type |-> tag]] : tag \in TypeTags}
    \cup {[server |-> "google", info |-> [description |-> "d"]]}
    \cup [server : {"gcp", "soar"}, annotation : Annotations, default : Defaults]

NotNormalized == [done |-> FALSE]

NormInit ==
    /\ n_in \in NormInputs
    /\ n_out = NotNormalized
    /\ OldIdle
    /\ WrapIdle
    /\ ReflIdle

\* the loop body of the wrapper factory for the parameter n_in
Normalize ==
    /\ ~n_out.done
    /\ n_out' =
         CASE n_in.server = "google" ->
                [done |-> TRUE, raised |-> FALSE,
                 annotation |-> google_annotation(n_in.info)]
           [] n_in.server = "gcp" ->
                [done |-> TRUE, raised |-> FALSE,
                 annotation |-> gcp_annotation(n_in.annotation),
                 default |-> normalize_default(n_in.default)]
           [] n_in.server = "soar" ->
                [done |-> TRUE, raised |-> FALSE,
                 annotation |-> soar_annotation(n_in.annotation),
                 default |-> normalize_default(n_in.default)]
    /\ UNCHANGED <<n_in, old_vars, wrap_vars, refl_vars>>

\* the loop goes on to the next parameter
NextParameter ==
    /\ n_out.done
    /\ n_in' \in {x \in NormInputs : x.server = n_in.server}
    /\ n_out' = NotNormalized
    /\ UNCHANGED <<old_vars, wrap_vars, refl_vars>>

NormNext ==
    \/ Normalize
    \/ NextParameter

SpecNorm == NormInit /\ [][NormNext]_vars

(***************************************************************************)
(* Reflective discovery: maps_server.register_tools and the member loop of *)
(* gcp_server.discover_tools                                               *)
(***************************************************************************)
\* A member of inspect.getmembers: its name and what it is: a plain
\* function, a bound method (callable, no plain function) or an attribute
\* that cannot be called.
IGNORED_METHODS ==
    {<<"_", "_", "i", "n", "i", "t", "_", "_">>,
     <<"c", "l", "e", "a", "r", "_", "e", "x", "p", "e", "r", "i", "e", "n", "c", "e", "_", "i", "d">>,
     <<"g", "e", "t", "_", "e", "x", "p", "e", "r", "i", "e", "n", "c", "e", "_", "i", "d">>,
     <<"s", "e", "t", "_", "e", "x", "p", "e", "r", "i", "e", "n", "c", "e", "_", "i", "d">>}

GcpIgnored ==
    {<<"f", "r", "o", "m", "_", "s", "e", "r", "v", "i", "c", "e", "_", "a", "c", "c", "o", "u", "n", "t", "_", "f", "i", "l", "e">>,
     <<"f", "r", "o", "m", "_", "s", "e", "r", "v", "i", "c", "e", "_", "a", "c", "c", "o", "u", "n", "t", "_", "i", "n", "f", "o">>,
     <<"f", "r", "o", "m", "_", "s", "e", "r", "v", "i", "c", "e", "_", "a", "c", "c", "o", "u", "n", "t", "_", "j", "s", "o", "n">>,
     <<"g", "e", "t", "_", "m", "t", "l", "s", "_", "e", "n", "d", "p", "o", "i", "n", "t", "_", "a", "n", "d", "_", "c", "e", "r", "t", "_", "s", "o", "u", "r", "c", "e">>,
     <<"p", "a", "r", "s", "e", "_", "c", "o", "m", "m", "o", "n", "_", "b", "i", "l", "l", "i", "n", "g", "_", "a", "c", "c", "o", "u", "n", "t", "_", "p", "a", "t", "h">>,
     <<"p", "a", "r", "s", "e", "_", "c", "o", "m", "m", "o", "n", "_", "f", "o", "l", "d", "e", "r", "_", "p", "a", "t", "h">>,
     <<"p", "a", "r", "s", "e", "_", "c", "o", "m", "m", "o", "n", "_", "l", "o", "c", "a", "t", "i", "o", "n", "_", "p", "a", "t", "h">>,
     <<"p", "a", "r", "s", "e", "_", "c", "o", "m", "m", "o", "n", "_", "o", "r", "g", "a", "n", "i", "z", "a", "t", "i", "o", "n", "_", "p", "a", "t", "h">>,
     <<"p", "a", "r", "s", "e", "_", "c", "o", "m", "m", "o", "n", "_", "p", "r", "o", "j", "e", "c", "t", "_", "p", "a", "t", "h">>,
     <<"c", "o", "m", "m", "o", "n", "_", "b", "i", "l", "l", "i", "n", "g", "_", "a", "c", "c", "o", "u", "n", "t", "_", "p", "a", "t", "h">>,
     <<"c", "o", "m", "m", "o", "n", "_", "f", "o", "l", "d", "e", "r", "_", "p", "a", "t", "h">>,
     <<"c", "o", "m", "m", "o", "n", "_", "l", "o", "c", "a", "t", "i", "o", "n", "_", "p", "a", "t", "h">>,
     <<"c", "o", "m", "m", "o", "n", "_", "o", "r", "g", "a", "n", "i", "z", "a", "t", "i", "o", "n", "_", "p", "a", "t", "h">>,
     <<"c", "o", "m", "m", "o", "n", "_", "p", "r", "o", "j", "e", "c", "t", "_", "p", "a", "t", "h">>}

callable(m) == m.kind \in {"function", "method"}
isfunction(m) == m.kind = "function"

\* inspect.getmembers(client) of the maps client, sorted by name
MapsMembers ==
    <<[name |-> <<"_", "_", "i", "n", "i", "t", "_", "_">>,
       kind |-> "method"],
      [name |-> <<"_", "r", "e", "q", "u", "e", "s", "t">>,
       kind |-> "method"],
      [name |-> <<"c", "l", "e", "a", "r", "_", "e", "x", "p", "e", "r", "i", "e", "n", "c", "e", "_", "i", "d">>,
       kind |-> "method"],
      [name |-> <<"d", "i", "r", "e", "c", "t", "i", "o", "n", "s">>,
       kind |-> "method"],
      [name |-> <<"g", "e", "o", "c", "o", "d", "e">>,
       kind |-> "method"],
      [name |-> <<"k", "e", "y">>,
       kind |-> "attribute"],
      [name |-> <<"p", "l", "a", "c", "e", "s">>,
       kind |-> "method"],
      [name |-> <<"r", "e", "v", "e", "r", "s", "e", "_", "g", "e", "o", "c", "o", "d", "e">>,
       kind |-> "method"]>>

\* inspect.getmembers(client_cls) of a gcp client class, sorted by name
GcpMembers ==
    <<[name |-> <<"_", "_", "i", "n", "i", "t", "_", "_">>,
       kind |-> "function"],
      [name |-> <<"_", "g", "e", "t", "_", "d", "e", "f", "a", "u", "l", "t", "_", "m", "t", "l", "s", "_", "e", "n", "d", "p", "o", "i", "n", "t">>,
       kind |-> "function"],
      [name |-> <<"a", "s", "s", "e", "t", "_", "p", "a", "t", "h">>,
       kind |-> "function"],
      [name |-> <<"c", "o", "m", "m", "o", "n", "_", "p", "r", "o", "j", "e", "c", "t", "_", "p", "a", "t", "h">>,
       kind |-> "function"],
      [name |-> <<"f", "r", "o", "m", "_", "s", "e", "r", "v", "i", "c", "e", "_", "a", "c", "c", "o", "u", "n", "t", "_", "f", "i", "l", "e">>,
       kind |-> "method"],
      [name |-> <<"l", "i", "s", "t", "_", "a", "s", "s", "e", "t", "s">>,
       kind |-> "function"],
      [name |-> <<"t", "r", "a", "n", "s", "p", "o", "r", "t">>,
       kind |-> "attribute"]>>

ReflPackage == GoogleCloudDash \o <<"a", "s", "s", "e", "t">>

\* a loop that registers every public callable, denylisted or not
accepts_public(srv, m) ==
    IF srv = "maps"
    THEN ~startswith(m.name, <<"_">>) /\ callable(m)
    ELSE ~startswith(m.name, <<"_">>) /\ isfunction(m)

\* the conditions under which the loop goes on to register the member
accepts(srv, m) ==
    IF srv = "maps"
    THEN /\ ~startswith(m.name, <<"_">>)
         /\ m.name \notin IGNORED_METHODS
         /\ callable(m)
    ELSE /\ ~startswith(m.name, <<"_">>)
         /\ isfunction(m)
         /\ m.name \notin GcpIgnored

\* the name the member is registered under: mcp.tool(name=name) in maps,
\* f"{pkg_prefix}_{name}" in gcp
refl_tool_name(srv, m) ==
    IF srv = "maps" THEN m.name ELSE pkg_to_prefix(ReflPackage) \o <<"_">> \o m.name

(***************************************************************************)
(* SpecRefl                                                                *)
(***************************************************************************)
ReflPool(srv) == IF srv = "maps" THEN MapsMembers ELSE GcpMembers

ReflInit ==
    /\ r_server \in {"maps", "gcp"}
    /\ \E present \in SUBSET (1..Len(ReflPool(r_server))) :
          /\ present # {}
          /\ r_members = SelectSeq(ReflPool(r_server),
                                   LAMBDA m : \E i \in present : ReflPool(r_server)[i] = m)
    /\ r_idx = 1
    /\ r_tools = <<>>
    /\ r_log = {}
    /\ OldIdle
    /\ WrapIdle
    /\ NormIdle

\* the member is filtered out
ReflSkip ==
    /\ r_idx <= Len(r_members)
    /\ ~accepts(r_server, r_members[r_idx])
    /\ r_idx' = r_idx + 1
    /\ UNCHANGED <<r_server, r_members, r_tools, r_log, old_vars, wrap_vars, norm_vars>>

\* the member is registered as a tool
ReflRegister ==
    /\ r_idx <= Len(r_members)
    /\ accepts(r_server, r_members[r_idx])
    /\ LET m == r_members[r_idx]
           n == refl_tool_name(r_server, m)
       IN r_tools' = [k \in DOMAIN r_tools \cup {n} |-> IF k = n THEN m.name ELSE r_tools[k]]
    /\ r_idx' = r_idx + 1
    /\ UNCHANGED <<r_server, r_members, r_log, old_vars, wrap_vars, norm_vars>>

\* registering the member raises (mcp.tool in maps; create_wrapper or
\* add_tool in gcp): the except clause writes a message and the loop goes on
ReflFail ==
    /\ r_idx <= Len(r_members)
    /\ accepts(r_server, r_members[r_idx])
    /\ r_log' = r_log \cup {r_members[r_idx].name}
    /\ r_idx' = r_idx + 1
    /\ UNCHANGED <<r_server, r_members, r_tools, old_vars, wrap_vars, norm_vars>>

ReflNext ==
    \/ ReflSkip
    \/ ReflRegister
    \/ ReflFail

SpecRefl == ReflInit /\ [][ReflNext]_vars

(***************************************************************************)
(* The sequential discovery passes: discover_tools of gcp_server, and      *)
(* register_tools of fitbit_server, soar_server and secops_server          *)
(***************************************************************************)
ScanServers == {"gcp", "fitbit", "soar", "secops"}

\* The providers a pass goes through, in its order, and the operations
\* inspect.getmembers yields for each (sorted by name) that pass the filter:
\* the candidates of gcp, the Fitbit class, the Siemplify class, the modules
\* of secops.chronicle.
ScanProviders(srv) ==
    CASE srv = "gcp" ->
           <<[key |-> "m1.AsClient", pkg |-> GoogleCloudDash \o <<"a", "s">>,
              ops |-> <<<<"g", "t">>, <<"l", "s">>>>],
             [key |-> "m2.AkClient", pkg |-> GoogleCloudDash \o <<"a", "-", "k">>,
              ops |-> <<<<"l", "s">>>>]>>
      [] srv = "fitbit" ->
           <<[key |-> "Fitbit", pkg |-> <<>>, ops |-> <<<<"f", "d">>, <<"f", "v">>>>]>>
      [] srv = "soar" ->
           <<[key |-> "Siemplify", pkg |-> <<>>, ops |-> <<<<"g", "c">>, <<"g", "s">>>>]>>
      [] srv = "secops" ->
           <<[key |-> "secops.chronicle.alert", pkg |-> <<>>, ops |-> <<<<"g", "a">>>>],
             [key |-> "secops.chronicle.search", pkg |-> <<>>, ops |-> <<<<"s", "r">>, <<"s", "t">>>>]>>

\* the name the adapter of operation op of provider p is registered under:
\* f"{pkg_prefix}_{name}" in gcp, the function's own name in the others
scan_tool_name(srv, p, op) ==
    IF srv = "gcp" THEN pkg_to_prefix(p.pkg) \o <<"_">> \o op ELSE op

\* what loading a provider can end in: the module is imported and the class
\* found, the import raises ImportError, the module has no such class, or the
\* import raises another exception
LoadOutcomes(srv) ==
    CASE srv = "gcp"    -> {"ok", "ImportError", "no_class", "other"}
      [] srv = "secops" -> {"ok", "ImportError", "other"}
      [] OTHER          -> {"ok"}

\* the load failures the loop body catches
LoadCaught(srv, outcome) == outcome \in {"ImportError", "no_class"}

\* whether the pass writes a message for the load failure
LoadReported(srv, outcome) == srv = "gcp"

\* the failures of one operation: inspect.signature raises ValueError, or the
\* synthesis or add_tool raises another exception
OpFailures == {"ValueError", "Exception"}

\* whether the except clause that catches the failure writes a message
OpReported(srv, failure) ==
    CASE srv = "gcp"    -> TRUE
      [] srv = "fitbit" -> failure # "ValueError"
      [] srv = "soar"   -> FALSE
      [] srv = "secops" -> failure # "ValueError"

\* the values of the loop variables of the pass
LoopProvider == d_pos.provider
LoopOp == d_pos.op

\* a wrapper that reads the loop variables when it is called
captured_late(ad) == [provider |-> LoopProvider, op |-> LoopOp]

\* what the wrapper resolves and calls: the arguments make_factory and
\* create_wrapper were called with
captured(ad) == [provider |-> ad.provider, op |-> ad.op]

NoCall == [tool |-> <<>>, provider |-> "none", op |-> <<>>]

(***************************************************************************)
(* SpecScan                                                                *)
(***************************************************************************)
ScanInit ==
    /\ d_server \in ScanServers
    /\ d_pos = [state |-> "load", c |-> 1, m |-> 0, provider |-> "none", op |-> <<>>]
    /\ d_catalog = <<>>
    /\ d_log = {}
    /\ d_hist = [visited |-> {}, loaded |-> {}, failed |-> {}]
    /\ d_call = NoCall
    /\ BaseIdle
    /\ ResultIdle
    /\ ArgvIdle

\* the position after provider c is finished with
AfterProvider(c) ==
    IF c < Len(ScanProviders(d_server))
    THEN [d_pos EXCEPT !.state = "load", !.c = c + 1, !.m = 0,
                       !.provider = ScanProviders(d_server)[c].key]
    ELSE [d_pos EXCEPT !.state = "done", !.provider = ScanProviders(d_server)[c].key]

\* the provider is loaded: the member loop starts
ScanLoadOk ==
    /\ d_pos.state = "load"
    /\ d_pos' = [d_pos EXCEPT !.state = "members", !.m = 1,
                              !.provider = ScanProviders(d_server)[d_pos.c].key]
    /\ d_hist' = [d_hist EXCEPT !.visited = @ \cup {d_pos.c}, !.loaded = @ \cup {d_pos.c}]
    /\ UNCHANGED <<d_server, d_catalog, d_log, d_call, base_vars, result_vars, argv_vars>>

\* loading fails in a way the loop body catches: the pass goes on
ScanLoadSkipped ==
    /\ d_pos.state = "load"
    /\ \E outcome \in LoadOutcomes(d_server) :
         /\ LoadCaught(d_server, outcome)
         /\ d_log' = IF LoadReported(d_server, outcome)
                     THEN d_log \cup {[c |-> d_pos.c, m |-> 0]} ELSE d_log
         /\ d_hist' = [d_hist EXCEPT !.visited = @ \cup {d_pos.c},
                                     !.failed = @ \cup {[c |-> d_pos.c, m |-> 0, e |-> outcome]}]
    /\ d_pos' = AfterProvider(d_pos.c)
    /\ UNCHANGED <<d_server, d_catalog, d_call, base_vars, result_vars, argv_vars>>

\* loading raises an exception that is no ImportError: it leaves the pass
ScanLoadCrash ==
    /\ d_pos.state = "load"
    /\ "other" \in LoadOutcomes(d_server)
    /\ d_pos' = [d_pos EXCEPT !.state = "crashed",
                              !.provider = ScanProviders(d_server)[d_pos.c].key]
    /\ d_hist' = [d_hist EXCEPT !.visited = @ \cup {d_pos.c},
                                !.failed = @ \cup {[c |-> d_pos.c, m |-> 0, e |-> "other"]}]
    /\ UNCHANGED <<d_server, d_catalog, d_log, d_call, base_vars, result_vars, argv_vars>>

\* the adapter of the operation the member loop is at is synthesized and
\* registered
ScanRegister ==
    /\ d_pos.state = "members"
    /\ d_pos.m <= Len(ScanProviders(d_server)[d_pos.c].ops)
    /\ LET p  == ScanProviders(d_server)[d_pos.c]
           op == p.ops[d_pos.m]
           n  == scan_tool_name(d_server, p, op)
       IN /\ d_catalog' = [k \in DOMAIN d_catalog \cup {n} |->
                              IF k = n THEN [provider |-> p.key, op |-> op] ELSE d_catalog[k]]
          /\ d_pos' = [d_pos EXCEPT !.m = @ + 1, !.op = op]
    /\ UNCHANGED <<d_server, d_log, d_hist, d_call, base_vars, result_vars, argv_vars>>

\* introspection, synthesis or registration of the operation raises: the
\* except clause of the loop body takes it and the loop goes on
ScanOpFail ==
    /\ d_pos.state = "members"
    /\ d_pos.m <= Len(ScanProviders(d_server)[d_pos.c].ops)
    /\ \E failure \in OpFailures :
         /\ d_log' = IF OpReported(d_server, failure)
                     THEN d_log \cup {[c |-> d_pos.c, m |-> d_pos.m]} ELSE d_log
         /\ d_hist' = [d_hist EXCEPT !.failed =
                          @ \cup {[c |-> d_pos.c, m |-> d_pos.m, e |-> failure]}]
    /\ d_pos' = [d_pos EXCEPT !.m = @ + 1, !.op = ScanProviders(d_server)[d_pos.c].ops[d_pos.m]]
    /\ UNCHANGED <<d_server, d_catalog, d_call, base_vars, result_vars, argv_vars>>

\* the member loop of the provider has ended
ScanNextProvider ==
    /\ d_pos.state = "members"
    /\ d_pos.m > Len(ScanProviders(d_server)[d_pos.c].ops)
    /\ d_pos' = AfterProvider(d_pos.c)
    /\ UNCHANGED <<d_server, d_catalog, d_log, d_hist, d_call, base_vars, result_vars, argv_vars>>

\* the pass is over and the server runs: the host calls the tool k
ScanInvoke(k) ==
    /\ d_pos.state = "done"
    /\ d_call' = [tool |-> k, provider |-> captured(d_catalog[k]).provider,
                  op |-> captured(d_catalog[k]).op]
    /\ UNCHANGED <<d_server, d_pos, d_catalog, d_log, d_hist, base_vars, result_vars, argv_vars>>

ScanNext ==
    \/ ScanLoadOk
    \/ ScanLoadSkipped
    \/ ScanLoadCrash
    \/ ScanRegister
    \/ ScanOpFail
    \/ ScanNextProvider
    \/ \E k \in DOMAIN d_catalog : ScanInvoke(k)

SpecScan == ScanInit /\ [][ScanNext]_vars

(***************************************************************************)
(* Result normalization: what the wrappers of gcp_server and soar_server   *)
(* return for the result of the provider's operation                       *)
(***************************************************************************)
\* A result: whether it has an attribute pages, whether its class has
\* to_json, its Python type, and whether the serialization the wrapper
\* applies to it raises.  The forms of the returned string: the JSON array
\* of the first items of a pager, the output of to_json, indented JSON, str(),
\* and the messages of the two except clauses.
ResultTypes == {"dict", "list", "tuple", "str", "int", "NoneType", "object"}

\* isinstance(result, (dict, list))
is_dict_or_list(r) == r.type \in {"dict", "list"}

\* a wrapper that looks for to_json before it looks for pages
gcp_normalize_to_json_first(r) ==
    IF r.to_json
    THEN IF r.raises THEN "error_executing" ELSE "to_json"
    ELSE IF r.pages
    THEN IF r.raises THEN "error_iterating_pager" ELSE "json_array_capped"
    ELSE IF is_dict_or_list(r)
    THEN IF r.raises THEN "error_executing" ELSE "json_indent"
    ELSE IF r.raises THEN "error_executing" ELSE "str"

\* gcp_server: hasattr(result, "pages"), then hasattr(result.__class__,
\* "to_json"), then isinstance(result, (dict, list)), then str(result)
gcp_normalize(r) ==
    IF r.pages
    THEN IF r.raises THEN "error_iterating_pager" ELSE "json_array_capped"
    ELSE IF r.to_json
    THEN IF r.raises THEN "error_executing" ELSE "to_json"
    ELSE IF is_dict_or_list(r)
    THEN IF r.raises THEN "error_executing" ELSE "json_indent"
    ELSE IF r.raises THEN "error_executing" ELSE "str"

\* soar_server: isinstance(result, (dict, list)), then str(result)
soar_normalize(r) ==
    IF is_dict_or_list(r)
    THEN IF r.raises THEN "error_executing" ELSE "json_indent"
    ELSE IF r.raises THEN "error_executing" ELSE "str"

(***************************************************************************)
(* SpecResult                                                              *)
(***************************************************************************)
ResultInputs ==
    [srv : {"gcp", "soar"}, pages : BOOLEAN, to_json : BOOLEAN, type : ResultTypes,
     raises : BOOLEAN]

NotReturned == <<>>

ResultInit ==
    /\ res_in \in ResultInputs
    /\ res_out = NotReturned
    /\ BaseIdle
    /\ ScanIdle
    /\ ArgvIdle

\* the wrapper turns the result into the string it returns
NormalizeResult ==
    /\ res_out = NotReturned
    /\ res_out' = [form |-> IF res_in.srv = "gcp" THEN gcp_normalize(res_in)
                            ELSE soar_normalize(res_in)]
    /\ UNCHANGED <<res_in, base_vars, scan_vars, argv_vars>>

ResultNext == NormalizeResult

SpecResult == ResultInit /\ [][ResultNext]_vars

(***************************************************************************)
(* get_client of soar_server: the argument vector it swaps in and out      *)
(***************************************************************************)
MaxArgvCalls == 2

\* ["mcp_server", api_key]
MockArgv == "mock"

GcIdle == [pc |-> "idle", original_argv |-> "none", calls |-> 0]

ArgvInit ==
    /\ argv = "original"
    /\ gc = [t \in Callers |-> GcIdle]
    /\ BaseIdle
    /\ ScanIdle
    /\ ResultIdle

\* original_argv = sys.argv
GcSave(t) ==
    /\ gc[t].pc = "idle"
    /\ gc[t].calls < MaxArgvCalls
    /\ gc' = [gc EXCEPT ![t].pc = "saved", ![t].original_argv = argv]
    /\ UNCHANGED <<argv, base_vars, scan_vars, result_vars>>

\* sys.argv = ["mcp_server", api_key]
GcSet(t) ==
    /\ gc[t].pc = "saved"
    /\ argv' = MockArgv
    /\ gc' = [gc EXCEPT ![t].pc = "try"]
    /\ UNCHANGED <<base_vars, scan_vars, result_vars>>

\* Siemplify.Siemplify() returns the client
GcBuildOk(t) ==
    /\ gc[t].pc = "try"
    /\ gc' = [gc EXCEPT ![t].pc = "finally"]
    /\ UNCHANGED <<argv, base_vars, scan_vars, result_vars>>

\* Siemplify.Siemplify() raises: the except clause writes a message and
\* raises again
GcBuildRaise(t) ==
    /\ gc[t].pc = "try"
    /\ gc' = [gc EXCEPT ![t].pc = "finally_raising"]
    /\ UNCHANGED <<argv, base_vars, scan_vars, result_vars>>

\* finally: sys.argv = original_argv, and get_client returns or raises
GcRestore(t) ==
    /\ gc[t].pc \in {"finally", "finally_raising"}
    /\ argv' = gc[t].original_argv
    /\ gc' = [gc EXCEPT ![t] = [pc |-> "idle", original_argv |-> "none", calls |-> @.calls + 1]]
    /\ UNCHANGED <<base_vars, scan_vars, result_vars>>

ArgvNext ==
    \/ \E t \in Callers : GcSave(t)
    \/ \E t \in Callers : GcSet(t)
    \/ \E t \in Callers : GcBuildOk(t)
    \/ \E t \in Callers : GcBuildRaise(t)
    \/ \E t \in Callers : GcRestore(t)

SpecArgv == ArgvInit /\ [][ArgvNext]_vars

(***************************************************************************)
(* SpecSan: the sanitizer called on bounded inputs, in one or more runs    *)
(***************************************************************************)
MaxShortFill == 2
MinLongFill == 58
MaxFill == 66
MaxRuns == 2
MaxSanCalls == 2

\* the two ends of an input; the middle is a run of one character
Heads == { <<>>, <<"a">>, <<"Z">>, <<"7">>, <<"_">>, <<"-">>, <<"$">>,
           <<".", "a">>, <<"$", "7">>, <<"a", "$">> }
Tails == { <<>>, <<"z">>, <<"$">>, <<"9", "_">>, <<" ", "q">> }
Fills == { "b", "$" }

\* short inputs, and inputs whose length lies around the 64 character limit
FillLens == (0..MaxShortFill) \cup (MinLongFill..MaxFill)

SanInputs ==
    { h \o Rep(f, n) \o t : h \in Heads, f \in Fills, n \in FillLens, t \in Tails }

SanStart ==
    /\ san_name \in SanInputs
    /\ san_outs = <<>>
    /\ san_again = <<>>
    /\ run = 1

SanInit == SanStart /\ PagerIdle /\ DiscIdle /\ InvokeIdle /\ AuxIdle

\* one call of sanitize_tool_name(san_name)
SanCall ==
    /\ Len(san_outs) < MaxSanCalls
    /\ san_outs' = Append(san_outs, sanitize_tool_name(san_name))
    /\ UNCHANGED <<san_name, san_again, run, pg_vars, disc_vars, inv_vars, aux_vars>>

\* the server process is started again
SanRestart ==
    /\ run < MaxRuns
    /\ run' = run + 1
    /\ UNCHANGED <<san_name, san_outs, san_again, pg_vars, disc_vars, inv_vars, aux_vars>>

\* the name a call returned is sanitized again: create_tool_wrapper is given
\* a name that is already a sanitized one
SanResanitize ==
    /\ Len(san_again) < Len(san_outs)
    /\ san_outs[Len(san_again) + 1] # IndexError
    /\ san_again' = Append(san_again, sanitize_tool_name(san_outs[Len(san_again) + 1]))
    /\ UNCHANGED <<san_name, san_outs, run, pg_vars, disc_vars, inv_vars, aux_vars>>

SanNext == SanCall \/ SanRestart \/ SanResanitize

SpecSan == SanInit /\ [][SanNext]_vars

(***************************************************************************)
(* Claims about sanitize_tool_name                                         *)
(***************************************************************************)
IsValidToolName(o) ==
    /\ Len(o) <= 64
    /\ \A i \in 1..Len(o) : InClass(o[i])
    /\ Len(o) >= 1
    /\ o[1] \in Lower \cup Upper \cup {"_"}

C9_Form(s) ==
    LET r == [i \in 1..Len(s) |-> IF InClass(s[i]) THEN s[i] ELSE "_"] IN
    IF r = <<>> THEN r
    ELSE IF r[1] \in Lower \cup Upper \cup {"_"} THEN r ELSE <<"A">> \o r

C9_Expected(s) ==
    LET f == C9_Form(s) IN
    IF Len(f) <= 64 THEN f
    ELSE SubSeq(f, 1, 27) \o <<"_">> \o md5_hex8(s) \o <<"_">>
           \o SubSeq(f, Len(f) - 26, Len(f))

C29_Idempotent ==
    san_name # <<>> =>
        \A i \in 1..Len(san_again) :
            /\ san_again[i] = san_outs[i]
            /\ san_outs[i] = sanitize_tool_name(san_name)

\* the hashed name of an input of more than 64 characters that starts with a
\* digit and holds disallowed characters was sanitized again
C29_Witness ==
    /\ Len(san_again) >= 1
    /\ Len(san_name) > 64
    /\ san_name[1] \in Digit
    /\ \E i \in 1..Len(san_name) : ~InClass(san_name[i])
    /\ Len(san_again[1]) = 64
    /\ san_again[1][28] = "_"
    /\ san_again[1] # re_sub(san_name)

(***************************************************************************)
(* Claims about the paged result                                           *)
(***************************************************************************)
C10_Min(a, b) == IF a < b THEN a ELSE b

\* C10: for a paged result that yields n items (none of the fetches raising),
\* the wrapper returns a JSON array of exactly min(n, 20) elements, the first
\* ones in source order, and it never pulls more than 21 items from the
\* source, returning as soon as the 21st was pulled (also from an unbounded
\* source).
C10_PagerCapped ==
    /\ pg.pulled <= 21
    /\ pg.pulled = 21 => pg.pc \in {"done", "failed"}
    /\ pg.pc = "done" =>
          LET n == IF pg_src.unbounded THEN 21 ELSE pg_src.n
              m == C10_Min(n, 20)
          IN /\ pg.out.json = "array"
             /\ Len(pg.out.elems) = m
             /\ \A j \in 1..m :
                   pg.out.elems[j] =
                     IF SrcItem(pg_src, j).kind = "proto" THEN [dict |-> j] ELSE [str |-> j]

\* an unbounded source was cut after 20 elements
C10_Witness ==
    /\ pg_src.unbounded
    /\ pg.pc = "done"
    /\ Len(pg.out.elems) = 20
    /\ pg.pulled = 21

(***************************************************************************)
(* Claims about discovery and the registry                                 *)
(***************************************************************************)
\* the listing entries whose name sanitizes to catalog key k
ListedUnder(k) ==
    {i \in 1..Len(registered_tools) : sanitize_tool_name(registered_tools[i].name) = k}

\* C3: after two operations whose names sanitize to the same catalogKey were
\* registered, the key has exactly one entry in the tool catalog and exactly
\* one in the _registered_tools listing.
C3_OneEntryPerKey ==
    \A k \in DOMAIN tools : Cardinality(ListedUnder(k)) = 1

\* exactly one discovery failure is logged for each failing provider (and none
\* for the others)
C4_OneFailureEach ==
    \A a \in targets : warnings[a] = IF task[a].failed THEN 1 ELSE 0

\* C4 as stated: once the pool has completed, every adapter of every
\* non-failing provider is registered, and exactly one discovery failure is
\* logged for each failing provider.
C4_AllAdaptersRegistered ==
    main_pc = "serving" =>
        /\ C4_OneFailureEach
        /\ \A a \in targets : ~task[a].failed =>
              \A ad \in AdaptersOf(a) : ad.name \in DOMAIN tools /\ tools[ad.name] = ad

\* C4 amended: once the pool has completed, every adapter of every non-failing
\* provider is registered under its catalogKey unless an adapter of the same
\* catalogKey was registered before it (then the key holds that adapter), and
\* exactly one discovery failure is logged for each failing provider.
C4_AdaptersRegisteredUnlessKeyTaken ==
    main_pc = "serving" =>
        /\ C4_OneFailureEach
        /\ \A a \in targets : ~task[a].failed =>
              \A ad \in AdaptersOf(a) :
                 /\ ad.name \in DOMAIN tools
                 /\ \/ tools[ad.name] = ad
                    \/ \E b \in targets : tools[ad.name] \in AdaptersOf(b) \ {ad}

\* discovery over all four APIs has completed: c:v1 failed on its malformed
\* resource, b:v1 could not be built, a:v1 did not fail and its adapter is registered
C4_Witness ==
    /\ main_pc = "serving"
    /\ targets = Apis
    /\ task["c:v1"].failed /\ task["c:v1"].idx = 2
    /\ task["b:v1"].failed /\ task["b:v1"].idx = 0
    /\ ~task["a:v1"].failed
    /\ ~task["a:v2"].failed
    /\ <<"A", "_", "g">> \in DOMAIN tools
    /\ tools[<<"A", "_", "g">>].api = "a:v1"

\* C12: every name list_google_tools returns is the key under which an adapter
\* is registered, and every registered adapter is listed exactly once.
C12_ListingMatchesCatalog ==
    LET names == list_google_tools(<<>>) IN
    /\ \A i \in 1..Len(names) : names[i] \in DOMAIN tools
    /\ \A k \in DOMAIN tools : Cardinality({i \in 1..Len(names) : names[i] = k}) = 1

C16_RegistryOnlyGrows ==
    [][ /\ \A k \in DOMAIN tools : k \in DOMAIN tools' /\ tools'[k] = tools[k]
        /\ Len(registered_tools') >= Len(registered_tools)
        /\ SubSeq(registered_tools', 1, Len(registered_tools)) = registered_tools
      ]_vars

\* both versions of one API were discovered without failure, the second
\* registration of the shared name was accepted, and the record of the name
\* is still the one registered first
C16_Witness ==
    /\ {"a:v1", "a:v2"} \subseteq targets
    /\ main_pc = "serving"
    /\ ~task["a:v1"].failed /\ ~task["a:v2"].failed
    /\ \E k \in DOMAIN tools :
          /\ Cardinality(ListedUnder(k)) = 2
          /\ tools[k].api \in {"a:v1", "a:v2"}

(***************************************************************************)
(* Claims about the synthesized wrappers                                   *)
(***************************************************************************)
\* the exposed name of the original parameter name p: '.' replaced by '_'
Exposed(p) == [i \in 1..Len(p) |-> IF p[i] = "." THEN "_" ELSE p[i]]

\* the keyword an argument named key is to be passed on under: 'body' as
\* 'body', the exposed name of a declared parameter as that parameter's
\* original name, any other name unchanged
ForwardedAs(key) ==
    IF key = N_body THEN N_body
    ELSE IF \E p \in Keys(w_desc.parameters) : Exposed(p) = key
    THEN CHOOSE p \in Keys(w_desc.parameters) : Exposed(p) = key
    ELSE key

GoogleCalled == w_kind = "google" /\ w_sent.called

\* C11 as stated: every argument of a call reaches the provider operation
\* under the keyword it is to be passed on under, with its value.
C11_EveryArgumentForwarded ==
    GoogleCalled =>
        \A i \in 1..Len(w_kw) :
            /\ ForwardedAs(w_kw[i].k) \in Keys(w_sent.args)
            /\ Get(w_sent.args, ForwardedAs(w_kw[i].k)) = w_kw[i].v

\* C11: every argument of a call is passed on under its keyword; the keyword
\* carries the value of the last argument of the call passed on under it, and
\* the provider operation gets no other keyword.
C11_LastArgumentForwarded ==
    GoogleCalled =>
        /\ \A i \in 1..Len(w_kw) :
            LET last == CHOOSE j \in 1..Len(w_kw) :
                           /\ ForwardedAs(w_kw[j].k) = ForwardedAs(w_kw[i].k)
                           /\ \A l \in 1..Len(w_kw) :
                                 ForwardedAs(w_kw[l].k) = ForwardedAs(w_kw[i].k) => l <= j
            IN /\ ForwardedAs(w_kw[i].k) \in Keys(w_sent.args)
               /\ Get(w_sent.args, ForwardedAs(w_kw[i].k)) = w_kw[last].v
        /\ Keys(w_sent.args) = {ForwardedAs(w_kw[i].k) : i \in 1..Len(w_kw)}

\* a call binds the exposed name a_b of the declared parameter a.b, and body
C11_Witness ==
    /\ GoogleCalled
    /\ N_a_dot_b \in Keys(w_desc.parameters)
    /\ Keys(w_kw) = {N_a_us_b, N_body}
    /\ Keys(w_sent.args) = {N_a_dot_b, N_body}
    /\ Get(w_sent.args, N_a_dot_b) = Get(w_kw, N_a_us_b)

\* C14: when a call nests arguments as a mapping under 'kwargs', every entry
\* of the mapping reaches the provider as a top-level argument (a 'kwargs'
\* entry of the mapping as it is), and the mapping itself does not.
C14_NestedFlattened ==
    (/\ w_sent.called
     /\ N_kwargs \in Keys(w_kw)
     /\ isdict(Get(w_kw, N_kwargs))) =>
        LET inner == Get(w_kw, N_kwargs).dict IN
        /\ \A i \in 1..Len(inner) :
              \E key \in Keys(w_sent.args) :
                  /\ key \in {inner[i].k, ForwardedAs(inner[i].k)}
                  /\ Get(w_sent.args, key) = inner[i].v
        /\ N_kwargs \in Keys(w_sent.args) =>
              /\ N_kwargs \in Keys(inner)
              /\ Get(w_sent.args, N_kwargs) = Get(inner, N_kwargs)

GoogleSynthesized == w_kind = "google" /\ w_out.status # "none"

\* the declared names are identifiers once their dots are replaced
NamesDotted ==
    \A p \in Keys(w_desc.parameters) :
        \A i \in 1..Len(p) : isalpha(p[i]) \/ p[i] \in {".", "_"}

\* two parameters of the signature to build get the same exposed name
NamesCollide ==
    \/ \E p, q \in Keys(w_desc.parameters) : p # q /\ Exposed(p) = Exposed(q)
    \/ w_desc.request /\ \E p \in Keys(w_desc.parameters) : Exposed(p) = N_body

\* the signature has pairwise distinct names and the reverse map leads from
\* the exposed name of every declared parameter to its original name
UniqueAndMapped ==
    /\ w_out.status = "ok"
    /\ \A i, j \in 1..Len(w_out.signature) :
          w_out.signature[i].name = w_out.signature[j].name => i = j
    /\ \A p \in Keys(w_desc.parameters) :
          /\ \E i \in 1..Len(w_out.signature) : w_out.signature[i].name = Exposed(p)
          /\ Exposed(p) \in Keys(w_out.param_mapping)
          /\ Get(w_out.param_mapping, Exposed(p)) = p

C20_BodyIffRequest ==
    (w_kind = "google" /\ w_out.status = "ok") =>
        LET sig == w_out.signature IN
        /\ (\E i \in 1..Len(sig) : sig[i].synthetic) <=> w_desc.request
        /\ \A i \in 1..Len(sig) :
              sig[i].synthetic =>
                 /\ i = Len(sig)
                 /\ sig[i].name = N_body
                 /\ sig[i].annotation = "dict"
                 /\ sig[i].default = "None"
        /\ \A i \in 1..Len(w_desc.parameters) :
              /\ ~sig[i].synthetic
              /\ sig[i].default =
                    IF "required" \in DOMAIN w_desc.parameters[i].v
                       /\ w_desc.parameters[i].v.required
                    THEN "empty" ELSE "None"

\* an adapter with a required and an optional declared parameter and the body
C20_Witness ==
    /\ w_kind = "google"
    /\ w_out.status = "ok"
    /\ w_desc.request
    /\ Len(w_out.signature) = 3
    /\ w_out.signature[1].default = "empty"
    /\ w_out.signature[2].default = "None"

(***************************************************************************)
(* Claims about signature normalization                                    *)
(***************************************************************************)
PortableTypes == {"string", "integer", "float", "boolean", "array", "object", "any"}

\* the portable type of an annotation that is no union
PortableOfPlain(a) ==
    CASE a.kind = "simple" /\ a.name = "str"   -> "string"
      [] a.kind = "simple" /\ a.name = "int"   -> "integer"
      [] a.kind = "simple" /\ a.name = "float" -> "float"
      [] a.kind = "simple" /\ a.name = "bool"  -> "boolean"
      [] a.kind = "simple" /\ a.name = "list"  -> "array"
      [] a.kind = "simple" /\ a.name = "dict"  -> "object"
      [] a.kind = "generic" /\ a.name = "list" -> "array"
      [] a.kind = "generic" /\ a.name = "dict" -> "object"
      [] a.kind \in {"any", "empty"}           -> "any"
      [] OTHER                                 -> "none"

\* the portable type of an annotation; an Optional of a portable type has the
\* type it wraps; "none" when it has no portable type
PortableOf(a) ==
    IF a.kind # "union" THEN PortableOfPlain(a)
    ELSE LET rest == a.args \ {Simple("NoneType")} IN
         IF Cardinality(rest) = 1 THEN PortableOfPlain(CHOOSE x \in rest : TRUE)
         ELSE "none"

\* the annotation is None, or a union of several simple types (for soar also
\* of subscripted lists and dicts)
UnionOfSimple(srv, a) ==
    \/ a = Simple("NoneType")
    \/ /\ a.kind = "union"
       /\ \A x \in a.args :
             \/ x.kind = "simple"
             \/ srv = "soar" /\ x.kind = "generic" /\ x.name \in {"list", "dict"}
       /\ Cardinality(a.args \ {Simple("NoneType")}) >= 2

C18_DefaultsSerializable ==
    (n_out.done /\ n_in.server \in {"gcp", "soar"}) =>
        /\ n_in.default = EmptyDefault => n_out.default = EmptyDefault
        /\ (n_in.default # EmptyDefault /\ n_in.default.dumps = "ok") =>
              n_out.default = n_in.default
        /\ (n_in.default # EmptyDefault /\ n_in.default.dumps # "ok") =>
              n_out.default = NoneDefault
        /\ n_out.default.dumps = "ok"

\* a default json.dumps rejects was replaced by None
C18_Witness ==
    /\ n_out.done
    /\ n_in.server = "soar"
    /\ n_in.default.dumps = "TypeError"
    /\ n_out.default = NoneDefault

\* Title(a) + '_' + r1 + '_' + ... + '_' + rn + '_' + m
RECURSIVE JoinPath(_, _)
JoinPath(path, i) ==
    IF i > Len(path) THEN <<>> ELSE path[i] \o <<"_">> \o JoinPath(path, i + 1)

QualifiedName(api, path, m) == title(api_name(api)) \o <<"_">> \o JoinPath(path, 1) \o m

\* whether the document desc holds the method m at the resource path path[i..]
RECURSIVE FoundAt(_, _, _, _)
FoundAt(desc, path, i, m) ==
    /\ ~desc.malformed
    /\ IF i > Len(path)
       THEN \E j \in 1..Len(desc.methods) : desc.methods[j].name = m
       ELSE \E j \in 1..Len(desc.resources) :
               /\ desc.resources[j].name = path[i]
               /\ FoundAt(desc.resources[j].desc, path, i + 1, m)

\* the methods register_tools_for_api(api) has wrapped and given to add_tool
Processed(api) ==
    {Work(api)[i] : i \in {j \in 1..Len(Work(api)) :
        /\ j < task[api].idx
        /\ Work(api)[j].type = "tool"
        /\ Work(api)[j].synth}}

\* C21 as stated: the tool registered under the sanitized qualified name of
\* every discovered method calls that method: it obtains the service of the
\* method's API and takes the accessors of the method's resource path.
C21_EveryMethodHasItsTool ==
    \A api \in targets : \A w \in Processed(api) :
        LET k == sanitize_tool_name(QualifiedName(api, w.path, w.m_name)) IN
        /\ k \in DOMAIN tools
        /\ tools[k].api = api
        /\ tools[k].path = w.path
        /\ tools[k].method_name = w.m_name

\* C21: every tool of the catalog is registered under the sanitized
\* qualified name of a method found in the document of its API at its own
\* resource path; an invocation of it holds the service of that API; and the
\* sanitized qualified name of every wrapped method is a key of the catalog,
\* held by the adapter that was registered under it first.
C21_ToolCallsItsOwnMethod ==
    /\ \A k \in DOMAIN tools :
          /\ tools[k].api \in targets
          /\ k = sanitize_tool_name(QualifiedName(tools[k].api, tools[k].path, tools[k].method_name))
          /\ FoundAt(ResourceDesc(tools[k].api), tools[k].path, 1, tools[k].method_name)
    /\ \A t \in DOMAIN th :
          th[t].pc = "call" =>
              /\ th[t].handle.key = th[t].ad.key
              /\ th[t].ad.name \in DOMAIN tools
              /\ tools[th[t].ad.name].api = th[t].ad.key
              /\ tools[th[t].ad.name].path = th[t].ad.path
              /\ tools[th[t].ad.name].method_name = th[t].ad.method_name
    /\ \A api \in targets : \A w \in Processed(api) :
          sanitize_tool_name(QualifiedName(api, w.path, w.m_name)) \in DOMAIN tools

\* the tool of the method u at the resource path r, s is invoked after the
\* sibling resource t was processed: it holds the service of its API
C21_Witness ==
    /\ main_pc = "serving"
    /\ \E k \in DOMAIN tools : tools[k].path = <<"t">>
    /\ \E t \in DOMAIN th :
          /\ th[t].pc = "call"
          /\ th[t].ad.path = <<"r", "s">>
          /\ th[t].ad.method_name = <<"u">>
          /\ th[t].ad.name = <<"D", "_", "r", "_", "s", "_", "u">>
          /\ th[t].handle.key = "d:v1"

\* C26: main is serving only when every submitted discovery task is done,
\* and no step taken while it is serving changes the catalog or the listing.
C26_ServingAfterDiscovery ==
    /\ [](main_pc = "serving" => \A a \in targets : task[a].pc = "done")
    /\ [][main_pc = "serving" =>
             /\ tools' = tools
             /\ registered_tools' = registered_tools]_vars

\* main is serving after the discovery of several APIs, of which one failed
\* and another registered its tools
C26_Witness ==
    /\ main_pc = "serving"
    /\ Cardinality(targets) >= 3
    /\ \E a \in targets : task[a].failed
    /\ \E a \in targets : ~task[a].failed /\ \E k \in DOMAIN tools : tools[k].api = a

\* C27: discovery leaves _services empty: the cache is empty as long as
\* get_service has built no service, and neither the cache nor an invocation
\* ever holds a service built for introspection.
C27_DiscoveryLeavesCacheEmpty ==
    /\ constructed = {} => client_cache = <<>>
    /\ \A k \in DOMAIN client_cache : client_cache[k] \notin introspection
    /\ \A h \in returned : h \notin introspection
    /\ \A t \in DOMAIN th : th[t].pc = "call" => th[t].handle \notin introspection

\* after discovery built an introspection service for an API, an invocation
\* of one of its tools has built and cached the service of that API
C27_Witness ==
    /\ main_pc = "serving"
    /\ \E k \in DOMAIN client_cache :
          /\ IntrospectionService(k) \in introspection
          /\ client_cache[k] \in returned
          /\ \E t \in DOMAIN th : th[t].pc = "call" /\ th[t].handle = client_cache[k]

(***************************************************************************)
(* Claims about reflective discovery                                       *)
(***************************************************************************)
ReflDone == r_server # "none" /\ r_idx > Len(r_members)

Private(m) == Len(m.name) > 0 /\ m.name[1] = "_"

Denylist(srv) == IF srv = "maps" THEN IGNORED_METHODS ELSE GcpIgnored

MembersSeen == {r_members[i] : i \in 1..(r_idx - 1)}

PassEnded == d_server # "none" /\ d_pos.state \in {"done", "crashed"}

OpsOf(c) == 1..Len(ScanProviders(d_server)[c].ops)

FailedOp(c, m) == \E f \in d_hist.failed : f.c = c /\ f.m = m

RegisteredOp(c, m) ==
    LET p == ScanProviders(d_server)[c]
        n == scan_tool_name(d_server, p, p.ops[m])
    IN /\ n \in DOMAIN d_catalog
       /\ d_catalog[n] = [provider |-> p.key, op |-> p.ops[m]]

\* C22: a call of a tool resolves the client of the provider and calls the
\* operation the tool was synthesized for, wherever the loops have got to.
C22_AdapterKeepsItsBinding ==
    (d_server # "none" /\ d_call # NoCall) =>
        \E c \in 1..Len(ScanProviders(d_server)) : \E m \in OpsOf(c) :
            LET p == ScanProviders(d_server)[c] IN
            /\ d_call.tool = scan_tool_name(d_server, p, p.ops[m])
            /\ d_call.provider = p.key
            /\ d_call.op = p.ops[m]

\* after the pass has gone through two providers, the tool of the first
\* operation of the first provider is called
C22_Witness ==
    /\ d_server = "gcp"
    /\ d_pos.state = "done"
    /\ d_hist.loaded = {1, 2}
    /\ d_call.provider = "m1.AsClient"
    /\ d_call.op = ScanProviders("gcp")[1].ops[1]
    /\ LoopProvider # d_call.provider
    /\ LoopOp # d_call.op

\* C24 as stated: in the pass of fitbit, gcp or soar, an operation whose
\* introspection, synthesis or registration fails is skipped and reported,
\* and every other operation of the provider is registered.
C24_FailuresSkippedAndReported ==
    (d_server \in {"fitbit", "gcp", "soar"} /\ d_pos.state = "done") =>
        \A c \in d_hist.loaded : \A m \in OpsOf(c) :
            IF FailedOp(c, m)
            THEN ~RegisteredOp(c, m) /\ [c |-> c, m |-> m] \in d_log
            ELSE RegisteredOp(c, m)

\* C25 as stated: in the pass of gcp or secops, a failure to load a provider
\* is logged and every later provider is still reached.
C25_LoadFailuresRecovered ==
    (d_server \in {"gcp", "secops"} /\ PassEnded) =>
        /\ \A c \in 1..Len(ScanProviders(d_server)) : c \in d_hist.visited
        /\ \A f \in d_hist.failed : f.m = 0 => [c |-> f.c, m |-> 0] \in d_log

(***************************************************************************)
(* Claims about result normalization                                       *)
(***************************************************************************)
\* C23 as stated: a result that is serialized without failure is handled by
\* the first matching test of: pages, to_json of its class, dict or list,
\* anything else.
C23_FirstOfFourTests ==
    (res_out # NotReturned /\ ~res_in.raises) =>
        res_out.form = IF res_in.pages THEN "json_array_capped"
                       ELSE IF res_in.to_json THEN "to_json"
                       ELSE IF res_in.type \in {"dict", "list"} THEN "json_indent"
                       ELSE "str"

\* C23: the gcp wrapper handles a result by the first matching test of:
\* pages, to_json of its class, dict or list, anything else; the soar wrapper
\* only tests for dict or list; a serialization that raises yields the
\* message of the except clause around it.
C23_FirstOfTheTestsOfTheServer ==
    res_out # NotReturned =>
        res_out.form =
            IF res_in.srv = "gcp" /\ res_in.pages
            THEN IF res_in.raises THEN "error_iterating_pager" ELSE "json_array_capped"
            ELSE IF res_in.raises THEN "error_executing"
            ELSE IF res_in.srv = "gcp" /\ res_in.to_json THEN "to_json"
            ELSE IF res_in.type \in {"dict", "list"} THEN "json_indent"
            ELSE "str"

\* the gcp wrapper has returned the capped array for a dict that has pages
\* and whose class has to_json
C23_Witness ==
    /\ res_out # NotReturned
    /\ res_in.srv = "gcp"
    /\ res_in.pages
    /\ res_in.to_json
    /\ res_in.type = "dict"
    /\ ~res_in.raises
    /\ res_out.form = "json_array_capped"

(***************************************************************************)
(* Claims about the argument vector                                        *)
(***************************************************************************)
\* C28 as stated: once every get_client call has returned, sys.argv has the
\* value it had before the first call.
C28_ArgvRestored ==
    (gc # <<>> /\ \A t \in Callers : gc[t].pc = "idle") => argv = "original"

(***************************************************************************)
(* Claims about the Fitbit credentials                                     *)
(***************************************************************************)
\* the step in which get_client of the invocation on thread t returns
GetClientReturns(t) ==
    /\ server = "fitbit"
    /\ th[t].pc = "client"
    /\ th'[t] # th[t]

RefusedWithoutCall(t) ==
    /\ th'[t].pc = "idle"
    /\ th'[t].ret.kind = "string"
    /\ th'[t].ret.text = FitbitNotInitialized
    /\ client_cache' = client_cache
    /\ constructed' = constructed

\* C30 as stated: whenever a credential is missing, an invocation constructs
\* and caches nothing and returns the error string without calling the
\* provider; with the credentials set, it goes on to construct the client.
C30_RefusedWheneverCredentialsMissing ==
    [][\A t \in Callers :
          /\ (GetClientReturns(t) /\ ~env) => RefusedWithoutCall(t)
          /\ (GetClientReturns(t) /\ env /\ client_cache = <<>>) => th'[t].pc = "build"]_vars

\* C30: when a credential is missing and no client was constructed before,
\* an invocation constructs and caches nothing and returns the error string
\* without calling the provider; with the credentials set, it goes on to
\* construct the client; a client constructed before is returned whatever
\* the environment holds.
C30_RefusedUnlessClientCached ==
    [][\A t \in Callers :
          /\ (GetClientReturns(t) /\ ~env /\ client_cache = <<>>) => RefusedWithoutCall(t)
          /\ (GetClientReturns(t) /\ env /\ client_cache = <<>>) => th'[t].pc = "build"
          /\ (GetClientReturns(t) /\ client_cache # <<>>) =>
                /\ th'[t].pc = "call"
                /\ th'[t].handle \in constructed]_vars

\* one invocation was refused for the missing credentials, and a later one
\* has constructed the client and is calling the provider
C30_Witness ==
    /\ server = "fitbit"
    /\ \E t, u \in Callers :
          /\ th[t].pc = "idle"
          /\ th[t].ret.text = FitbitNotInitialized
          /\ th[u].pc = "call"
          /\ th[u].handle \in constructed
          /\ client_cache # <<>>

(***************************************************************************)
(* Claims about the client caches and the adapters' results                *)
(***************************************************************************)
ReturnedFor(key) == {h \in returned : h.key = key}

\* C1: when callers concurrently make the first lookup of the same provider key
\* through get_service / get_client(module, class), the client is constructed
\* once and all the callers receive the same handle.
C1_SingleFlight ==
    server \in {"google", "gcp"} =>
        \A ad \in Adapters(server) :
            /\ Cardinality(BuiltFor(ad.key)) <= 1
            /\ Cardinality(ReturnedFor(ad.key)) <= 1

\* C2: every invocation of every registered adapter returns a string; no
\* exception raised inside the adapter reaches the caller.
C2_AlwaysString ==
    \A t \in DOMAIN th : th[t].ret.kind \in {"none", "string"}

C7_ConstructedAtMostOnce ==
    \A h \in constructed : BuiltFor(h.key) = {h}

\* C8: when the underlying call raises, the string the adapter returns contains
\* the name the adapter is registered under and the text of the error.
C8_ErrorNamesKey ==
    \A t \in DOMAIN th :
        (th[t].ret.fault = "call" /\ th[t].ret.kind = "string") =>
            /\ Contains(th[t].ret.text, th[t].ret.adapter)
            /\ Contains(th[t].ret.text, Boom)

=============================================================================
